---- MODULE Spec2Model ----
(***************************************************************************)
(* Memory & relevance engine of the support-chatbot backend:               *)
(*   backend/services/agent_memory.py   (MemoryEntry, AgentMemory,         *)
(*                                       MemoryManager)                    *)
(*   backend/services/memory_service.py (AdvancedMemoryService)            *)
(*   backend/services/knowledge_base.py (KnowledgeBaseService)             *)
(*   backend/services/chat_manager.py   (ChatManager)                      *)
(*                                                                         *)
(* Conventions of the model                                                *)
(*  - importance is a Python float; the model keeps it in tenths, so 5 is  *)
(*    0.5 and the test `importance > 0.6` is `importance > 6`.  Scores are *)
(*    compared after multiplying out the common positive denominators, so  *)
(*    the order is the order of the exact products.                        *)
(*  - MemoryEntry objects have identity: the same object may be referenced *)
(*    from short_term_memory and from long_term_memory.  `heap` maps an    *)
(*    object id to the object's fields, the two lists hold ids.            *)
(*  - a text is the sequence of its whitespace separated words;            *)
(*    str.split() of the text is that sequence, set(...) its range.        *)
(***************************************************************************)
EXTENDS Integers, Sequences, FiniteSets, TLC

\* ------------------------------------------------------------------------
\* Program constants
\* ------------------------------------------------------------------------
ShortTermCap == 20
KeepRecent == 10
TopPromoted == 5
PromoteImportance == 6
PromoteAccess == 2
InteractionImportance == 5
ProfileImportance == 8
AdvShortTermCap == 50

\* ------------------------------------------------------------------------
\* Helpers on sequences
\* ------------------------------------------------------------------------
Range(s) == {s[i] : i \in 1..Len(s)}

Min(a, b) == IF a < b THEN a ELSE b

\* Python s[-n:] for n >= 1: the last n elements, the whole list when it is
\* shorter.  (s[-0:] is s[0:], the whole list: callers handle n = 0.)
LastN(s, n) == IF Len(s) <= n THEN s ELSE SubSeq(s, Len(s) - n + 1, Len(s))

\* Python s[:n] for n >= 0.
FirstN(s, n) == SubSeq(s, 1, Min(n, Len(s)))

\* Number of positions of s that hold x.
Occurrences(s, x) == Cardinality({i \in 1..Len(s) : s[i] = x})

\* sorted(s, key=..., reverse=True): descending by key, and elements with
\* equal keys stay in their original order (Python's sort is stable, also
\* with reverse=True).  gt[<<a, b>>] is key(a) > key(b).  Computed as an
\* insertion sort: each element goes behind the elements that are not
\* smaller than it.
Insert(sorted, e, gt) ==
  LET smaller == Cardinality({i \in 1..Len(sorted) : gt[<<e, sorted[i]>>]})
      pos == Len(sorted) - smaller
  IN SubSeq(sorted, 1, pos) \o <<e>> \o SubSeq(sorted, pos + 1, Len(sorted))

RECURSIVE SortFrom(_, _, _, _)
SortFrom(s, i, acc, gt) ==
  IF i > Len(s) THEN acc
  ELSE SortFrom(s, i + 1, Insert(acc, s[i], gt), gt)

StableSortDesc(s, gt) == SortFrom(s, 1, <<>>, gt)

\* ------------------------------------------------------------------------
\* Texts
\* ------------------------------------------------------------------------
\* str.lower() on the words the model uses.
Lower(w) ==
  CASE w = "Room" -> "room"
    [] w = "Book" -> "book"
    [] OTHER -> w

LowerWords(text) == {Lower(text[i]) : i \in 1..Len(text)}

\* The whitespace separated tokens of json.dumps(interaction) for a user
\* message and an assistant response: json.dumps puts the string in double
\* quotes and follows it by a comma, so the first word of each string
\* carries a leading quote and the last one a trailing quote and comma.
JsonString(text) ==
  IF Len(text) = 0 THEN <<"\"\",">>
  ELSE [i \in 1..Len(text) |->
          (IF i = 1 THEN "\"" ELSE "") \o text[i] \o
          (IF i = Len(text) THEN "\"," ELSE "")]

interaction_content(user_message, assistant_response) ==
  <<"{\"user\":">> \o JsonString(user_message) \o
  <<"\"assistant\":">> \o JsonString(assistant_response) \o
  <<"\"metadata\":", "{},", "\"timestamp\":", "\"<iso>\"}">>

\* f"User preference: {key} = {value}"
profile_content(key, value) == <<"User", "preference:", key, "=", value>>

\* ------------------------------------------------------------------------
\* Inputs
\* ------------------------------------------------------------------------
SessionIds == {"s1"}
Messages == {<<"show", "Room", "report">>}
Response == <<"ok", "done">>
Facts == {<<"room", "service">>, <<"late", "checkout">>}
Importances == {0, 5, 15}
Keys == {"lang"}
Values == {"he"}
Queries == {<<>>, <<"room">>, <<"Room", "checkout">>}
Limits == {1, 2}
NRecent == {0, 2}
Roles == {"user"}
None == <<>>
ExpiresInDays == {None, <<0>>, <<1>>}
Hours == {0, 24}
KbQueries ==
  {<<>>, <<"?!">>, <<"Login", "password,">>, <<"manage">>,
   <<"chadarim", "rooms", "tachzuka">>}
KbLimits == {0, 1, 5}
NewItems ==
  {[title |-> <<"Late", "check-out">>, content |-> <<"late", "fee", "rooms">>,
    category |-> "rooms", tags |-> <<>>],
   [title |-> <<"password,", "reset">>, content |-> <<"reset", "password">>,
    category |-> "faq", tags |-> <<"login">>]}

VARIABLES
  sessions,     \* MemoryManager.sessions: session id -> AgentMemory
  heap,         \* the MemoryEntry objects that are still referenced
  short_term,   \* AdvancedMemoryService.short_term: session id -> messages
  long_term,    \* AdvancedMemoryService.long_term, in dictionary order
  now,          \* datetime.now(), in days
  added,        \* history: ids of the entries add_interaction appended
  calls,        \* history: number of calls made, per operation
  scope,        \* the part of the input space a specification explores
  items,        \* KnowledgeBaseService.items
  db_file,      \* the snapshot at KnowledgeBaseService.db_path
  lt_snapshot,  \* long_term.json as AdvancedMemoryService.__init__ found it
  result,       \* what the last call of a reporting operation returned or raised
  chat_sessions, \* ChatManager.sessions: session id -> history
  tasks,        \* the process_message requests: number -> its local variables
  skills,       \* SkillsManager.skills, in registration order
  limiter,      \* the RateLimiter: its limits, buckets, blocks and whitelist
  clock,        \* datetime.now() as the rate limiter reads it, in seconds
  granted       \* history: the is_allowed calls that were answered by quota

vars ==
  <<sessions, heap, short_term, long_term, now, added, calls, scope, items,
    db_file, lt_snapshot, result, chat_sessions, tasks, skills, limiter,
    clock, granted>>

knowledge_vars == <<items, db_file>>

\* What the operations of the memories leave alone besides their own state.
chat_vars == <<chat_sessions, tasks>>

\* The request filter in front of the chat: skills and rate limiter.
front_vars == <<skills, limiter, clock, granted>>

others == <<scope, knowledge_vars, lt_snapshot, result, chat_vars, front_vars>>

agent_vars == <<sessions, heap, added>>

service_vars == <<short_term, long_term>>

\* ------------------------------------------------------------------------
\* MemoryEntry
\* ------------------------------------------------------------------------
\* MemoryEntry.__init__
MemoryEntry(content, category, importance) ==
  [content |-> content, category |-> category, importance |-> importance,
   access_count |-> 0]

\* MemoryEntry.access, applied once for every position of `touched`.
access(h, touched) ==
  [id \in DOMAIN h |->
     [h[id] EXCEPT !.access_count = @ + Occurrences(touched, id)]]

\* Objects no list references any more are garbage.
Live(mem) == Range(mem.short_term_memory) \cup Range(mem.long_term_memory)

Referenced(ss) == UNION {Live(ss[s]) : s \in DOMAIN ss}

Collect(h, ss) == [id \in (DOMAIN h \cap Referenced(ss)) |-> h[id]]

\* ------------------------------------------------------------------------
\* AgentMemory
\* ------------------------------------------------------------------------
\* AgentMemory.__init__
AgentMemory(session_id, t) ==
  [session_id |-> session_id,
   created_at |-> t,
   short_term_memory |-> <<>>,
   long_term_memory |-> <<>>,
   user_profile |-> <<>>,
   topics_discussed |-> <<>>]

\* _extract_topics: the topic table in dictionary order; `keyword in
\* message_lower` is a substring test on the lowered message.
Topics == <<"reservations", "reports", "rooms", "payments", "support", "login">>

topic_keywords ==
  [reservations |-> {"book", "reservation"},
   reports |-> {"report"},
   rooms |-> {"room"},
   payments |-> {"payment"},
   support |-> {"error"},
   login |-> {"login"}]

HasSubstring(w, k) ==
  \E i \in 1..(Len(w) - Len(k) + 1) : SubSeq(w, i, i + Len(k) - 1) = k

Mentions(message, topic) ==
  \E i \in 1..Len(message) : \E k \in topic_keywords[topic] :
     HasSubstring(Lower(message[i]), k)

RECURSIVE ExtractFrom(_, _, _)
ExtractFrom(i, message, discussed) ==
  IF i > Len(Topics) THEN discussed
  ELSE ExtractFrom(i + 1, message,
         IF Mentions(message, Topics[i]) /\ Topics[i] \notin Range(discussed)
         THEN Append(discussed, Topics[i]) ELSE discussed)

\* (mutant: a topic is appended whenever the message mentions it)
extract_topics_again(message, discussed) ==
  discussed \o SelectSeq(Topics, LAMBDA topic : Mentions(message, topic))

\* _extract_topics
extract_topics(message, discussed) == ExtractFrom(1, message, discussed)

\* _consolidate_memory: the sort key (importance, access_count), descending.
RankedAbove(h, a, b) ==
  \/ h[a].importance > h[b].importance
  \/ (h[a].importance = h[b].importance /\ h[a].access_count > h[b].access_count)

sorted_memories(h, short) ==
  LET ids == Range(short)
      gt == [p \in ids \X ids |-> RankedAbove(h, p[1], p[2])]
  IN StableSortDesc(short, gt)

\* (mutants: a lower importance threshold; both conditions required)
Qualifies_low(h, id) ==
  h[id].importance > PromoteImportance - 2 \/ h[id].access_count > PromoteAccess

Qualifies_both(h, id) ==
  h[id].importance > PromoteImportance /\ h[id].access_count > PromoteAccess

\* _consolidate_memory: `memory.importance > 0.6 or memory.access_count > 2`
Qualifies(h, id) ==
  h[id].importance > PromoteImportance \/ h[id].access_count > PromoteAccess

Promoted(h, short) ==
  SelectSeq(FirstN(sorted_memories(h, short), TopPromoted),
            LAMBDA id : Qualifies(h, id))

\* (mutant: the entries are promoted and the list is not cut)
consolidate_memory_promoting(h, mem) ==
  [mem EXCEPT !.long_term_memory = @ \o Promoted(h, mem.short_term_memory)]

\* (mutant: the tail is cut to the cap instead of the most recent 10)
consolidate_memory_cap(h, mem) ==
  [mem EXCEPT
     !.long_term_memory = @ \o Promoted(h, mem.short_term_memory),
     !.short_term_memory = LastN(mem.short_term_memory, ShortTermCap)]

consolidate_memory(h, mem) ==
  [mem EXCEPT
     !.long_term_memory = @ \o Promoted(h, mem.short_term_memory),
     !.short_term_memory = LastN(mem.short_term_memory, KeepRecent)]

\* (mutants: the cap test off by one, either way)
NeedsConsolidation_late(short) == Len(short) > ShortTermCap + 1

NeedsConsolidation_early(short) == Len(short) >= ShortTermCap

\* add_interaction: `if len(self.short_term_memory) > 20`
NeedsConsolidation(short) == Len(short) > ShortTermCap

\* add_interaction without the bookkeeping of the model.
add_interaction(h, mem, id, user_message) ==
  LET appended == [mem EXCEPT
                     !.short_term_memory = Append(@, id),
                     !.topics_discussed = extract_topics(user_message, @)]
  IN IF NeedsConsolidation(appended.short_term_memory)
     THEN consolidate_memory(h, appended)
     ELSE appended

\* get_context: the entries it reads.
recent(short, n_recent) ==
  IF Len(short) >= n_recent
  THEN (IF n_recent = 0 THEN short ELSE LastN(short, n_recent))
  ELSE short

\* get_relevant_memories: score = overlap * importance, sorted descending
\* by score only, the first `limit` are accessed and returned.
Overlap(query, content) ==
  Cardinality(LowerWords(query) \cap LowerWords(content))

\* (mutant: the score is boosted by the access count)
score_boosted(h, query, id) ==
  Overlap(query, h[id].content) * h[id].importance * (10 + h[id].access_count)

\* get_relevant_memories: `score = overlap * memory.importance`
score(h, query, id) == Overlap(query, h[id].content) * h[id].importance

all_memories(mem) == mem.short_term_memory \o mem.long_term_memory

scored_memories(h, mem, query) ==
  LET sc == [id \in Live(mem) |-> score(h, query, id)]
      matching == SelectSeq(all_memories(mem), LAMBDA id : sc[id] > 0)
      ids == Range(matching)
      gt == [p \in ids \X ids |-> sc[p[1]] > sc[p[2]]]
  IN StableSortDesc(matching, gt)

relevant(h, mem, query, limit) == FirstN(scored_memories(h, mem, query), limit)

\* ------------------------------------------------------------------------
\* AdvancedMemoryService
\* ------------------------------------------------------------------------
\* _generate_id: md5 of the content and of the time of the call.
generate_id(content, t) == <<content, t>>

\* remember: `if expires_in_days:` takes 0 for no expiry.
expires_at(expires_in_days, t) ==
  IF expires_in_days = None \/ expires_in_days = <<0>> THEN None
  ELSE <<t + expires_in_days[1]>>

Memory(content, memory_type, importance, expires_in_days, t) ==
  [id |-> generate_id(content, t), content |-> content,
   memory_type |-> memory_type, importance |-> importance,
   access_count |-> 0, expires_at |-> expires_at(expires_in_days, t)]

\* self.long_term[memory_id] = memory: a known key keeps its place.
Store(lt, memory) ==
  IF \E i \in 1..Len(lt) : lt[i].id = memory.id
  THEN [i \in 1..Len(lt) |-> IF lt[i].id = memory.id THEN memory ELSE lt[i]]
  ELSE Append(lt, memory)

\* (mutant: expiry at the very time of the call counts as past)
Expired_inclusive(memory, t) ==
  memory.expires_at # None /\ memory.expires_at[1] <= t

\* recall, cleanup_expired: `datetime.fromisoformat(memory.expires_at) < now`
Expired(memory, t) == memory.expires_at # None /\ memory.expires_at[1] < t

\* recall: relevance = (overlap / |query words|) * importance *
\* (1 + 0.1 * access_count).  Within one call |query words| is the same for
\* all memories, so the order is that of overlap * importance * (10 + count).
relevance(query, memory) ==
  Overlap(query, memory.content) * memory.importance * (10 + memory.access_count)

\* (mutant: memories without a common word are scored too)
Candidate_any(query, memory_types, memory, t) ==
  /\ ~Expired(memory, t)
  /\ (memory_types = None \/ memory.memory_type \in Range(memory_types))

Candidate(query, memory_types, memory, t) ==
  /\ ~Expired(memory, t)
  /\ (memory_types = None \/ memory.memory_type \in Range(memory_types))
  /\ Overlap(query, memory.content) # 0

\* The positions of long_term that recall returns, best first.
results(lt, query, memory_types, t) ==
  LET idx == {i \in 1..Len(lt) : Candidate(query, memory_types, lt[i], t)}
      cand == SelectSeq([i \in 1..Len(lt) |-> i], LAMBDA i : i \in idx)
      gt == [p \in idx \X idx |->
               relevance(query, lt[p[1]]) > relevance(query, lt[p[2]])]
  IN StableSortDesc(cand, gt)

recalled(lt, query, memory_types, limit, t) ==
  FirstN(results(lt, query, memory_types, t), limit)

\* long_term.json as json.load gives it: an object of records (or a list,
\* or no JSON, or no file).  Memory(**mem_data) succeeds on a record (ok)
\* or raises TypeError.
MemorySnapshot(kind, records) == [kind |-> kind, records |-> records]

MemoryRecord(ok, memory) == [ok |-> ok, memory |-> memory]

NoMemories == MemorySnapshot("absent", <<>>)

\* _load_memories: the records are stored one by one until one raises; the
\* exception (also that of `.items()` on a list, or of json.load) is caught
\* and printed.
load_memories(snapshot) ==
  IF snapshot.kind # "dict" THEN <<>>
  ELSE LET bad == {i \in 1..Len(snapshot.records) : ~snapshot.records[i].ok}
           n == IF bad = {} THEN Len(snapshot.records)
                ELSE (CHOOSE i \in bad : \A j \in bad : i <= j) - 1
       IN [i \in 1..n |-> snapshot.records[i].memory]

\* ------------------------------------------------------------------------
\* KnowledgeBaseService
\* ------------------------------------------------------------------------
\* A text is a sequence of whitespace separated pieces.  re.findall(r'\w+',
\* piece.lower()) on the pieces the model uses.
KbTokens(piece) ==
  CASE piece = "Login" -> <<"login">>
    [] piece = "password," -> <<"password">>
    [] piece = "?!" -> <<>>
    [] piece = "technical support" -> <<"technical", "support">>
    [] piece = "check-out" -> <<"check", "out">>
    [] OTHER -> <<piece>>

KbWords(text) == UNION {Range(KbTokens(text[i])) : i \in 1..Len(text)}

\* The value json.load gives for a snapshot, and the value of self.items:
\* a list of items, an object or null; or there is no file, or no JSON in it.
Json(kind, elems) == [kind |-> kind, elems |-> elems]

JsonList(elems) == Json("list", elems)

JsonObject == Json("dict", <<>>)

JsonNull == Json("null", <<>>)

Absent == Json("absent", <<>>)

Unparsable == Json("unparsable", <<>>)

\* _initialize_base_knowledge: the five articles (Hebrew words transcribed).
base_knowledge ==
  << [title |-> <<"hitchabrut", "system">>,
      content |-> <<"enter", "username", "password,", "forgot", "password">>,
      category |-> "authentication",
      tags |-> <<"login", "password", "hitchabrut">>],
     [title |-> <<"manage", "hazmanot">>,
      content |-> <<"choose", "date", "room", "save">>,
      category |-> "reservations",
      tags |-> <<"booking", "hazmanot", "chadarim">>],
     [title |-> <<"dochot", "tashlumim">>,
      content |-> <<"occupancy", "income", "export">>,
      category |-> "reports",
      tags |-> <<"reports", "payments", "dochot", "tashlumim">>],
     [title |-> <<"manage", "chadarim">>,
      content |-> <<"status", "prices", "tachzuka">>,
      category |-> "rooms",
      tags |-> <<"rooms", "chadarim", "tachzuka">>],
     [title |-> <<"tmicha", "technit", "beayot">>,
      content |-> <<"slow", "cache", "refresh">>,
      category |-> "troubleshooting",
      tags |-> <<"technical support", "tmicha technit", "beayot">>] >>

\* (mutant: the id counts from the seed only)
doc_id_seed(category, n) == category \o "_" \o ToString(Min(n, Len(base_knowledge)))

\* f"{category}_{len(self.items)}"
doc_id(category, n) == category \o "_" \o ToString(n)

KbItem(id, title, content, category, tags) ==
  [id |-> id, title |-> title, content |-> content, category |-> category,
   tags |-> tags]

initialize_base_knowledge(elems) ==
  elems \o [i \in 1..Len(base_knowledge) |->
              KbItem(doc_id(base_knowledge[i].category, Len(elems) + i - 1),
                     base_knowledge[i].title, base_knowledge[i].content,
                     base_knowledge[i].category, base_knowledge[i].tags)]

\* _load_from_file: self.items stays [] without a file, and becomes [] when
\* reading raises; otherwise it is whatever json.load gives.
load_from_file(file) ==
  IF file.kind \in {"absent", "unparsable"} THEN JsonList(<<>>) ELSE file

\* _save_to_file: writes self.items; a failing write is swallowed and leaves
\* the file (saved = FALSE).
save_to_file(value, file, saved) == IF saved THEN value ELSE file

\* (mutant: the store is seeded whatever was loaded)
NeedsSeed_always(loaded) == TRUE

\* __init__: `if len(self.items) == 0`
NeedsSeed(loaded) == Len(loaded.elems) = 0

\* KnowledgeBaseService.__init__: len(None) raises TypeError, and append on
\* a dict raises AttributeError.
KnowledgeBaseService(file, saved) ==
  LET loaded == load_from_file(file)
  IN IF loaded.kind = "null"
     THEN [raised |-> "TypeError", items |-> loaded, db_file |-> file]
     ELSE IF ~NeedsSeed(loaded)
     THEN [raised |-> "", items |-> loaded, db_file |-> file]
     ELSE IF loaded.kind # "list"
     THEN [raised |-> "AttributeError", items |-> loaded, db_file |-> file]
     ELSE LET seeded == JsonList(initialize_base_knowledge(loaded.elems))
          IN [raised |-> "", items |-> seeded,
              db_file |-> save_to_file(seeded, file, saved)]

\* _calculate_relevance: len(common) / len(query_words) as a fraction
\* <<numerator, denominator>>, 0.0 for a query without words.
calculate_relevance(query, item) ==
  LET query_words == KbWords(query)
      text_words == KbWords(item.title \o item.content \o item.tags)
  IN IF query_words = {} THEN <<0, 1>>
     ELSE <<Cardinality(query_words \cap text_words), Cardinality(query_words)>>

\* (mutant: items are returned in stored order)
scored_items_unsorted(elems, query) ==
  SelectSeq([i \in 1..Len(elems) |-> i],
            LAMBDA i : calculate_relevance(query, elems[i])[1] > 0)

\* search: the positions of the items with score > 0, best first.
scored_items(elems, query) ==
  LET sc == [i \in 1..Len(elems) |-> calculate_relevance(query, elems[i])]
      idx == {i \in 1..Len(elems) : sc[i][1] > 0}
      cand == SelectSeq([i \in 1..Len(elems) |-> i], LAMBDA i : i \in idx)
      gt == [p \in idx \X idx |->
               sc[p[1]][1] * sc[p[2]][2] > sc[p[2]][1] * sc[p[1]][2]]
  IN StableSortDesc(cand, gt)

found(elems, query, limit) == FirstN(scored_items(elems, query), limit)

\* ",".join(tags)
RECURSIVE JoinFrom(_, _)
JoinFrom(tags, i) ==
  IF i > Len(tags) THEN ""
  ELSE (IF i = 1 THEN "" ELSE ",") \o tags[i] \o JoinFrom(tags, i + 1)

\* (mutant: the score itself is reported as the distance)
distance_similarity(kb_score) == kb_score

\* `"distance": 1.0 - score`, as a fraction.
distance(kb_score) == <<kb_score[2] - kb_score[1], kb_score[2]>>

formatted_result(query, item) ==
  [content |-> item.content,
   metadata |-> [title |-> item.title, category |-> item.category,
                 tags |-> JoinFrom(item.tags, 1)],
   distance |-> distance(calculate_relevance(query, item))]

search(elems, query, limit) ==
  LET top == found(elems, query, limit)
  IN [i \in 1..Len(top) |-> formatted_result(query, elems[top[i]])]

\* ------------------------------------------------------------------------
\* Operations
\* ------------------------------------------------------------------------
Bump(op) == [calls EXCEPT ![op] = @ + 1]

Within(op) == calls[op] < scope[op]

Reads == calls.contexts + calls.relevants

Writes == calls.facts + calls.profiles

RegistryCalls == calls.gets + calls.deletes + calls.sweeps

ServiceCalls ==
  calls.messages + calls.remembers + calls.recalls + calls.ticks +
  calls.cleanups

\* Identities of the MemoryEntry objects: the n-th entry of add_interaction
\* is n, the n-th entry of add_fact is -n.
NewInteraction == calls.adds + 1

NewFact == 0 - (Writes + 1)

\* MemoryManager.get_or_create_memory on an unknown session id.
CreateSession(s) ==
  /\ s \notin DOMAIN sessions
  /\ sessions' = [t \in DOMAIN sessions \cup {s} |->
                    IF t = s THEN AgentMemory(s, now) ELSE sessions[t]]
  /\ UNCHANGED <<heap, added, calls, others, service_vars, now>>

AddInteraction(s, m) ==
  /\ s \in DOMAIN sessions
  /\ Within("adds")
  /\ \E id \in {NewInteraction} :
     \E h \in {[i \in DOMAIN heap \cup {id} |->
                 IF i = id
                 THEN MemoryEntry(interaction_content(m, Response),
                                  "interaction", InteractionImportance)
                 ELSE heap[i]]} :
     \E ss \in {[sessions EXCEPT ![s] = add_interaction(h, @, id, m)]} :
        /\ sessions' = ss
        /\ heap' = Collect(h, ss)
        /\ added' = added \cup {id}
  /\ calls' = Bump("adds")
  /\ UNCHANGED <<others, service_vars, now>>

\* add_fact: a new MemoryEntry at the end of long_term_memory.
add_fact(s, fact, category, importance) ==
  /\ heap' = [i \in DOMAIN heap \cup {NewFact} |->
                IF i = NewFact THEN MemoryEntry(fact, category, importance)
                ELSE heap[i]]
  /\ sessions' = [sessions EXCEPT ![s].long_term_memory = Append(@, NewFact)]

AddFact(s, fact, importance) ==
  /\ s \in DOMAIN sessions
  /\ Within("facts")
  /\ Writes < scope.writes
  /\ add_fact(s, fact, "general", importance)
  /\ calls' = Bump("facts")
  /\ UNCHANGED <<added, others, service_vars, now>>

\* (mutant: a key that already has the value is not recorded again)
update_user_profile_changed(s, key, value) ==
  IF key \in DOMAIN sessions[s].user_profile /\ sessions[s].user_profile[key] = value
  THEN UNCHANGED <<heap, sessions>>
  ELSE /\ heap' = [i \in DOMAIN heap \cup {NewFact} |->
                     IF i = NewFact
                     THEN MemoryEntry(profile_content(key, value), "user_profile",
                                      ProfileImportance)
                     ELSE heap[i]]
       /\ sessions' = [sessions EXCEPT
            ![s].user_profile =
               [k \in DOMAIN @ \cup {key} |-> IF k = key THEN value ELSE @[k]],
            ![s].long_term_memory = Append(@, NewFact)]

\* update_user_profile: self.user_profile[key] = value, then add_fact.
update_user_profile(s, key, value) ==
  /\ heap' = [i \in DOMAIN heap \cup {NewFact} |->
                IF i = NewFact
                THEN MemoryEntry(profile_content(key, value), "user_profile",
                                 ProfileImportance)
                ELSE heap[i]]
  /\ sessions' = [sessions EXCEPT
       ![s].user_profile =
          [k \in DOMAIN @ \cup {key} |-> IF k = key THEN value ELSE @[k]],
       ![s].long_term_memory = Append(@, NewFact)]

UpdateUserProfile(s, key, value) ==
  /\ s \in DOMAIN sessions
  /\ Within("profiles")
  /\ Writes < scope.writes
  /\ update_user_profile(s, key, value)
  /\ calls' = Bump("profiles")
  /\ UNCHANGED <<added, others, service_vars, now>>

GetContext(s, n_recent) ==
  /\ s \in DOMAIN sessions
  /\ Within("contexts")
  /\ Reads < scope.reads
  /\ heap' = access(heap, recent(sessions[s].short_term_memory, n_recent))
  /\ calls' = Bump("contexts")
  /\ UNCHANGED <<sessions, added, others, service_vars, now>>

GetRelevantMemories(s, query, limit) ==
  /\ s \in DOMAIN sessions
  /\ Within("relevants")
  /\ Reads < scope.reads
  /\ heap' = access(heap, relevant(heap, sessions[s], query, limit))
  /\ calls' = Bump("relevants")
  /\ UNCHANGED <<sessions, added, others, service_vars, now>>

\* add_to_short_term: short_term is a defaultdict(list).
AddToShortTerm(s, role, content) ==
  /\ Within("messages")
  /\ ServiceCalls < scope.service
  /\ LET old == IF s \in DOMAIN short_term THEN short_term[s] ELSE <<>>
         item == [role |-> role, content |-> content, seq |-> calls.messages + 1]
         new == Append(old, item)
     IN short_term' = [t \in DOMAIN short_term \cup {s} |->
                         IF t = s
                         THEN (IF Len(new) > AdvShortTermCap
                               THEN LastN(new, AdvShortTermCap) ELSE new)
                         ELSE short_term[t]]
  /\ calls' = Bump("messages")
  /\ UNCHANGED <<agent_vars, long_term, now, others>>

Remember(content, importance, expires_in_days) ==
  /\ Within("remembers")
  /\ ServiceCalls < scope.service
  /\ long_term' = Store(long_term,
                        Memory(content, "fact", importance, expires_in_days, now))
  /\ calls' = Bump("remembers")
  /\ UNCHANGED <<agent_vars, short_term, now, others>>

Recall(query, memory_types, limit) ==
  /\ Within("recalls")
  /\ ServiceCalls < scope.service
  /\ LET hit == Range(recalled(long_term, query, memory_types, limit, now))
     IN long_term' = [i \in 1..Len(long_term) |->
                        IF i \in hit
                        THEN [long_term[i] EXCEPT !.access_count = @ + 1]
                        ELSE long_term[i]]
  /\ calls' = Bump("recalls")
  /\ UNCHANGED <<agent_vars, short_term, now, others>>

\* The clock advances between calls.
Tick ==
  /\ Within("ticks")
  /\ ServiceCalls < scope.service
  /\ now' = now + 1
  /\ calls' = Bump("ticks")
  /\ UNCHANGED <<agent_vars, service_vars, others>>

Returned(op, values) == [op |-> op, raised |-> "", returned |-> values]

Raised(op, exception) == [op |-> op, raised |-> exception, returned |-> <<>>]

\* cleanup_expired: deletes the expired memories and returns their number.
cleanup_expired(lt, t) == SelectSeq(lt, LAMBDA memory : ~Expired(memory, t))

CleanupExpired ==
  /\ Within("cleanups")
  /\ ServiceCalls < scope.service
  /\ long_term' = cleanup_expired(long_term, now)
  /\ result' = Returned("cleanup_expired",
                        <<Len(long_term) - Len(cleanup_expired(long_term, now))>>)
  /\ calls' = Bump("cleanups")
  /\ UNCHANGED <<front_vars, agent_vars, short_term, now, scope, knowledge_vars, lt_snapshot,
                 chat_vars>>

\* (mutant: a new memory is stored whether or not the id is known)
get_or_create_memory_fresh(ss, session_id, t) ==
  [k \in DOMAIN ss \cup {session_id} |->
     IF k = session_id THEN AgentMemory(session_id, t) ELSE ss[k]]

\* MemoryManager.get_or_create_memory: the registry afterwards; the call
\* returns self.sessions[session_id].
get_or_create_memory(ss, session_id, t) ==
  IF session_id \in DOMAIN ss THEN ss
  ELSE [k \in DOMAIN ss \cup {session_id} |->
          IF k = session_id THEN AgentMemory(session_id, t) ELSE ss[k]]

GetOrCreateMemory(s) ==
  /\ Within("gets")
  /\ RegistryCalls < scope.registry
  /\ \E ss \in {get_or_create_memory(sessions, s, now)} :
        /\ sessions' = ss
        /\ heap' = Collect(heap, ss)
  /\ calls' = Bump("gets")
  /\ UNCHANGED <<added, others, service_vars, now>>

\* (mutant: deleting empties the registry)
delete_session_memory_all(ss, session_id) ==
  IF session_id \in DOMAIN ss THEN <<>> ELSE ss

\* MemoryManager.delete_session_memory
delete_session_memory(ss, session_id) ==
  IF session_id \in DOMAIN ss
  THEN [k \in DOMAIN ss \ {session_id} |-> ss[k]]
  ELSE ss

DeleteSessionMemory(s) ==
  /\ Within("deletes")
  /\ RegistryCalls < scope.registry
  /\ \E ss \in {delete_session_memory(sessions, s)} :
        /\ sessions' = ss
        /\ heap' = Collect(heap, ss)
  /\ calls' = Bump("deletes")
  /\ UNCHANGED <<added, others, service_vars, now>>

\* `now` counts days, `hours` hours.
HoursPerDay == 24

\* (mutant: a session as old as `hours` goes too)
to_delete_inclusive(ss, hours, t) ==
  {k \in DOMAIN ss : (t - ss[k].created_at) * HoursPerDay >= hours}

\* cleanup_old_sessions: `age > timedelta(hours=hours)` with
\* age = now - memory.created_at.
to_delete(ss, hours, t) ==
  {k \in DOMAIN ss : (t - ss[k].created_at) * HoursPerDay > hours}

\* (mutant: a sweep with hours = 0 empties the registry)
cleanup_old_sessions_all(ss, hours, t) ==
  IF hours = 0 THEN <<>>
  ELSE [k \in DOMAIN ss \ to_delete(ss, hours, t) |-> ss[k]]

cleanup_old_sessions(ss, hours, t) ==
  [k \in DOMAIN ss \ to_delete(ss, hours, t) |-> ss[k]]

CleanupOldSessions(hours) ==
  /\ Within("sweeps")
  /\ RegistryCalls < scope.registry
  /\ \E ss \in {cleanup_old_sessions(sessions, hours, now)} :
        /\ sessions' = ss
        /\ heap' = Collect(heap, ss)
  /\ result' = Returned("cleanup_old_sessions",
                        <<Cardinality(to_delete(sessions, hours, now))>>)
  /\ calls' = Bump("sweeps")
  /\ UNCHANGED <<front_vars, added, scope, knowledge_vars, lt_snapshot, service_vars, now,
                 chat_vars>>

\* KnowledgeBaseService(): the service is constructed anew from the
\* snapshot on disk (a start of the process).
Construct(saved) ==
  /\ Within("constructs")
  /\ \E kb \in {KnowledgeBaseService(db_file, saved)} :
        /\ items' = kb.items
        /\ db_file' = kb.db_file
        /\ result' = IF kb.raised = "" THEN Returned("__init__", <<>>)
                     ELSE Raised("__init__", kb.raised)
  /\ calls' = Bump("constructs")
  /\ UNCHANGED <<front_vars, agent_vars, service_vars, now, scope, lt_snapshot, chat_vars>>

\* The last construction returned a service.
Available == ~(result.op = "__init__" /\ result.raised # "")

\* add_item: `if tags is None: tags = []` is the caller's empty list here.
add_item(elems, title, content, category, tags) ==
  Append(elems, KbItem(doc_id(category, Len(elems)), title, content,
                       category, tags))

AddItem(title, content, category, tags, saved) ==
  /\ Available
  /\ Within("additems")
  /\ \E new \in {JsonList(add_item(items.elems, title, content, category, tags))} :
        /\ items' = new
        /\ db_file' = save_to_file(new, db_file, saved)
  /\ result' = Returned("add_item", <<doc_id(category, Len(items.elems))>>)
  /\ calls' = Bump("additems")
  /\ UNCHANGED <<front_vars, agent_vars, service_vars, now, scope, lt_snapshot, chat_vars>>

Search(query, limit) ==
  /\ Available
  /\ Within("searches")
  /\ result' = Returned("search", search(items.elems, query, limit))
  /\ calls' = Bump("searches")
  /\ UNCHANGED <<front_vars, agent_vars, service_vars, now, scope, knowledge_vars, lt_snapshot,
                 chat_vars>>

\* ------------------------------------------------------------------------
\* ChatManager
\* ------------------------------------------------------------------------
\* process_message: `limit=3` of get_relevant_memories, and the last 10
\* messages of the history that go to the model.
MemoryLimit == 3
HistoryWindow == 10

\* The state process_message works on: ChatManager.sessions, the registry
\* of the memories and the MemoryEntry objects.
ChatState(chat, mem, h) == [chat |-> chat, mem |-> mem, heap |-> h]

\* _create_session_id: str(uuid.uuid4()), an id no caller has seen before;
\* the n-th one is "s<n>".
create_session_id(n) == "s" \o ToString(n)

\* _get_or_create_session: a known id is kept, for any other value (None,
\* an unknown id) a new id with an empty history is made.
get_or_create_session(chat, session_id, fresh) ==
  IF session_id # None /\ session_id[1] \in DOMAIN chat
  THEN [id |-> session_id[1], chat |-> chat]
  ELSE [id |-> fresh,
        chat |-> [k \in DOMAIN chat \cup {fresh} |->
                    IF k = fresh THEN <<>> ELSE chat[k]]]

\* process_message up to the call of the model (lines 57-91): the session
\* and its memory are looked up or made, the user message is appended,
\* get_relevant_memories accesses what it returns.  The awaits on the
\* skills and on the knowledge base run coroutines that never wait, so the
\* event loop switches to no other task there; they change no state.
process_begin(st, session_id, message, fresh, t) ==
  LET got == get_or_create_session(st.chat, session_id, fresh)
      mem == get_or_create_memory(st.mem, got.id, t)
      history == Append(got.chat[got.id], [role |-> "user", content |-> message])
  IN [session_id |-> got.id,
      chat |-> [got.chat EXCEPT ![got.id] = history],
      mem |-> mem,
      heap |-> access(st.heap, relevant(st.heap, mem[got.id], message, MemoryLimit)),
      recent_messages |-> LastN(history, HistoryWindow)]

\* The local variables of a request that waits for the model.  `memory` is
\* a reference to the AgentMemory object: memory_registered says that the
\* registry still holds that object.  `finished` is the number of requests
\* made when this one ended and `entry` the MemoryEntry it added (0 before).
Task(session_id, message, recent_messages, finished, entry) ==
  [pc |-> IF finished = 0 THEN "generate" ELSE "done",
   session_id |-> session_id, message |-> message,
   recent_messages |-> recent_messages, memory_registered |-> TRUE,
   finished |-> finished, entry |-> entry]

assistant_message == [role |-> "assistant", content |-> Response]

\* memory.add_interaction on the memory the request holds (lines 107-114);
\* a memory that is no longer registered is seen by nobody else.
interaction_stored(st, mem, task, id) ==
  LET entry == MemoryEntry(interaction_content(task.message, Response),
                           "interaction", InteractionImportance)
      h == [i \in DOMAIN st.heap \cup {id} |-> IF i = id THEN entry ELSE st.heap[i]]
      after == IF task.memory_registered
               THEN [mem EXCEPT ![task.session_id] =
                       add_interaction(h, @, id, task.message)]
               ELSE mem
  IN [mem |-> after, heap |-> Collect(h, after)]

\* (mutant: the history is written back from the copy taken before the call
\* of the model)
process_finish_stale(st, task, id) ==
  IF task.session_id \notin DOMAIN st.chat
  THEN [raised |-> "KeyError", chat |-> st.chat, mem |-> st.mem, heap |-> st.heap]
  ELSE LET stored == interaction_stored(st, st.mem, task, id)
       IN [raised |-> "",
           chat |-> [st.chat EXCEPT ![task.session_id] =
                       Append(task.recent_messages, assistant_message)],
           mem |-> stored.mem, heap |-> stored.heap]

\* (mutant: a history that is gone is made again, and so is the memory)
process_finish_recreating(st, task, id) ==
  LET sid == task.session_id
      stored == interaction_stored(st, get_or_create_memory(st.mem, sid, 0),
                                   [task EXCEPT !.memory_registered = TRUE], id)
  IN [raised |-> "",
      chat |-> [k \in DOMAIN st.chat \cup {sid} |->
                  IF k = sid
                  THEN Append(IF sid \in DOMAIN st.chat THEN st.chat[sid] ELSE <<>>,
                              assistant_message)
                  ELSE st.chat[k]],
      mem |-> stored.mem, heap |-> stored.heap]

\* process_message after the model has answered (lines 100-114):
\* `self.sessions[session_id].append(...)` raises KeyError when the history
\* is gone; otherwise the answer is appended to the history and the
\* interaction is added to the memory.
process_finish(st, task, id) ==
  IF task.session_id \notin DOMAIN st.chat
  THEN [raised |-> "KeyError", chat |-> st.chat, mem |-> st.mem, heap |-> st.heap]
  ELSE LET stored == interaction_stored(st, st.mem, task, id)
       IN [raised |-> "",
           chat |-> [st.chat EXCEPT ![task.session_id] =
                       Append(@, assistant_message)],
           mem |-> stored.mem, heap |-> stored.heap]

\* The requests whose memory object leaves the registry with the sessions
\* `gone` keep a reference to it.
Unregistered(gone) ==
  [k \in DOMAIN tasks |->
     IF tasks[k].pc = "generate" /\ tasks[k].session_id \in gone
     THEN [tasks[k] EXCEPT !.memory_registered = FALSE]
     ELSE tasks[k]]

ChatCalls ==
  calls.abandons + calls.histories + calls.exports + calls.chatdeletes +
  calls.sweeps

\* process_message, from the call to the `await` on
\* llm_service.generate_response, where the request is suspended.
ProcessMessage(session_id, message) ==
  /\ Within("requests")
  /\ \E t \in {calls.requests + 1} :
     \E st \in {process_begin(ChatState(chat_sessions, sessions, heap),
                              session_id, message,
                              create_session_id(calls.creates + 1), now)} :
        /\ chat_sessions' = st.chat
        /\ sessions' = st.mem
        /\ heap' = st.heap
        /\ tasks' = [k \in DOMAIN tasks \cup {t} |->
                       IF k = t
                       THEN Task(st.session_id, message, st.recent_messages, 0, 0)
                       ELSE tasks[k]]
        /\ calls' = [calls EXCEPT
                       !.requests = @ + 1,
                       !.creates = @ + (IF st.session_id \in DOMAIN chat_sessions
                                        THEN 0 ELSE 1)]
  /\ UNCHANGED <<front_vars, added, service_vars, now, scope, knowledge_vars, lt_snapshot,
                 result>>

\* The model has answered and the request runs to its end.
Generated(t) ==
  /\ t \in DOMAIN tasks
  /\ tasks[t].pc = "generate"
  /\ \E id \in {NewInteraction} :
     \E st \in {process_finish(ChatState(chat_sessions, sessions, heap),
                               tasks[t], id)} :
        /\ chat_sessions' = st.chat
        /\ sessions' = st.mem
        /\ heap' = st.heap
        /\ added' = IF st.raised = "" /\ tasks[t].memory_registered
                    THEN added \cup {id} ELSE added
        /\ calls' = IF st.raised = "" THEN Bump("adds") ELSE calls
        /\ tasks' = IF st.raised = ""
                    THEN [tasks EXCEPT ![t].pc = "done",
                                       ![t].finished = calls.requests,
                                       ![t].entry = id]
                    ELSE [tasks EXCEPT ![t].pc = "failed"]
        /\ result' = IF st.raised = ""
                     THEN Returned("process_message", <<tasks[t].session_id>>)
                     ELSE Raised("process_message", st.raised)
  /\ UNCHANGED <<front_vars, service_vars, now, scope, knowledge_vars, lt_snapshot>>

\* The caller gives the request up while it waits for the model: the await
\* raises CancelledError and the rest of process_message does not run.
Abandoned(t) ==
  /\ t \in DOMAIN tasks
  /\ tasks[t].pc = "generate"
  /\ Within("abandons")
  /\ ChatCalls < scope.chat
  /\ tasks' = [tasks EXCEPT ![t].pc = "abandoned"]
  /\ calls' = Bump("abandons")
  /\ UNCHANGED <<front_vars, chat_sessions, agent_vars, service_vars, now, scope,
                 knowledge_vars, lt_snapshot, result>>

\* get_history
GetHistory(session_id) ==
  /\ Within("histories")
  /\ ChatCalls < scope.chat
  /\ result' = IF session_id \notin DOMAIN chat_sessions
               THEN Raised("get_history", "ValueError")
               ELSE Returned("get_history", chat_sessions[session_id])
  /\ calls' = Bump("histories")
  /\ UNCHANGED <<front_vars, chat_vars, agent_vars, service_vars, now, scope,
                 knowledge_vars, lt_snapshot>>

\* get_session_memory: export_memory of get_or_create_memory(session_id).
GetSessionMemory(session_id) ==
  /\ Within("exports")
  /\ ChatCalls < scope.chat
  /\ IF session_id \notin DOMAIN chat_sessions
     THEN /\ result' = Raised("get_session_memory", "ValueError")
          /\ UNCHANGED sessions
     ELSE \E ss \in {get_or_create_memory(sessions, session_id, now)} :
             /\ sessions' = ss
             /\ result' = Returned("get_session_memory", <<ss[session_id]>>)
  /\ calls' = Bump("exports")
  /\ UNCHANGED <<front_vars, chat_vars, heap, added, service_vars, now, scope,
                 knowledge_vars, lt_snapshot>>

\* delete_session: the history and the memory.
DeleteSession(session_id) ==
  /\ Within("chatdeletes")
  /\ ChatCalls < scope.chat
  /\ chat_sessions' = [k \in DOMAIN chat_sessions \ {session_id} |->
                         chat_sessions[k]]
  /\ \E ss \in {delete_session_memory(sessions, session_id)} :
        /\ sessions' = ss
        /\ heap' = Collect(heap, ss)
  /\ tasks' = Unregistered({session_id})
  /\ calls' = Bump("chatdeletes")
  /\ UNCHANGED <<front_vars, added, service_vars, now, scope, knowledge_vars, lt_snapshot,
                 result>>

\* memory_manager.cleanup_old_sessions, called while requests are served.
CleanupWhileServing(hours) ==
  /\ Within("sweeps")
  /\ ChatCalls < scope.chat
  /\ \E ss \in {cleanup_old_sessions(sessions, hours, now)} :
        /\ sessions' = ss
        /\ heap' = Collect(heap, ss)
  /\ tasks' = Unregistered(to_delete(sessions, hours, now))
  /\ result' = Returned("cleanup_old_sessions",
                        <<Cardinality(to_delete(sessions, hours, now))>>)
  /\ calls' = Bump("sweeps")
  /\ UNCHANGED <<front_vars, chat_sessions, added, service_vars, now, scope,
                 knowledge_vars, lt_snapshot>>

\* ------------------------------------------------------------------------
\* SkillsManager
\* ------------------------------------------------------------------------
\* Skill.__init__ as the five subclasses call it (names transcribed from the
\* Hebrew): every skill starts enabled.
Skill(name, category) == [name |-> name, category |-> category, enabled |-> TRUE]

KnowledgeSearchSkill == Skill("knowledge search", "search")

ReservationSkill == Skill("reservation management", "reservations")

ReportGenerationSkill == Skill("report generation", "reports")

TroubleshootingSkill == Skill("troubleshooting", "troubleshooting")

LanguageProcessingSkill == Skill("language processing", "language")

\* SkillsManager.__init__ and _initialize_skills: the search skill only with
\* a knowledge base.
SkillsManager(kb_service) ==
  (IF kb_service THEN <<KnowledgeSearchSkill>> ELSE <<>>) \o
  <<ReservationSkill, ReportGenerationSkill, TroubleshootingSkill,
    LanguageProcessingSkill>>

\* The one-word keywords of the can_handle methods (Hebrew transcribed).
skill_keywords ==
  [search |-> {"eich", "hesber", "meida"},
   reservations |-> {"hazmana", "cheder", "book", "reservation", "check-in",
                     "check-out"},
   reports |-> {"doch", "report", "tfusa"},
   troubleshooting |-> {"beaya", "error", "bug"}]

\* can_handle: `keyword in query` for the search skill, `keyword in
\* query.lower()` for the next three, True for the language skill.
can_handle(skill, query) ==
  IF skill.category = "language" THEN TRUE
  ELSE \E i \in 1..Len(query) : \E k \in skill_keywords[skill.category] :
          HasSubstring(IF skill.category = "search" THEN query[i]
                       ELSE Lower(query[i]), k)

\* execute: the search skill awaits kb_service.search and
\* get_context_for_query, which raise or return; the other four only read
\* the query and return.
execute(skill, query, kb_raises) ==
  IF skill.category = "search" /\ kb_raises
  THEN [raised |-> "Exception", returned |-> <<>>]
  ELSE [raised |-> "", returned |-> <<[skill_used |-> skill.name]>>]

relevant_skills(all, query) ==
  SelectSeq(all, LAMBDA skill : skill.enabled /\ can_handle(skill, query))

\* The loop of process_query over relevant_skills from position i.
RECURSIVE ExecuteFrom(_, _, _, _, _)
ExecuteFrom(chosen, i, query, kb_raises, so_far) ==
  IF i > Len(chosen) THEN so_far
  ELSE LET skill == chosen[i]
           skill_result == execute(skill, query, kb_raises)
       IN ExecuteFrom(chosen, i + 1, query, kb_raises,
            IF skill_result.raised # "" THEN so_far
            ELSE [so_far EXCEPT
                    !.skills_triggered = Append(@, skill.name),
                    !.data = [c \in {skill.category} |->
                                skill_result.returned[1]] @@ @])

NoResults(query) == [query |-> query, skills_triggered |-> <<>>, data |-> <<>>]

\* (mutant: only the first matching skill runs)
process_query_first(all, query, kb_raises) ==
  ExecuteFrom(FirstN(relevant_skills(all, query), 1), 1, query, kb_raises,
              NoResults(query))

\* process_query
process_query(all, query, kb_raises) ==
  ExecuteFrom(relevant_skills(all, query), 1, query, kb_raises,
              NoResults(query))

\* enable_skill and disable_skill: the first skill of that name.
Named(all, skill_name) == {i \in 1..Len(all) : all[i].name = skill_name}

set_enabled(all, skill_name, enabled) ==
  IF Named(all, skill_name) = {} THEN all
  ELSE LET first == CHOOSE i \in Named(all, skill_name) :
                       \A j \in Named(all, skill_name) : i <= j
       IN [all EXCEPT ![first].enabled = enabled]

SkillCalls == calls.processed + calls.enables + calls.disables

ProcessQuery(query, kb_raises) ==
  /\ Within("processed")
  /\ SkillCalls < scope.front
  /\ result' = Returned("process_query",
                        <<process_query(skills, query, kb_raises)>>)
  /\ calls' = Bump("processed")
  /\ UNCHANGED <<agent_vars, service_vars, now, scope, knowledge_vars,
                 lt_snapshot, chat_vars, skills, limiter, clock, granted>>

EnableSkill(skill_name) ==
  /\ Within("enables")
  /\ SkillCalls < scope.front
  /\ skills' = set_enabled(skills, skill_name, TRUE)
  /\ result' = Returned("enable_skill", <<Named(skills, skill_name) # {}>>)
  /\ calls' = Bump("enables")
  /\ UNCHANGED <<agent_vars, service_vars, now, scope, knowledge_vars,
                 lt_snapshot, chat_vars, limiter, clock, granted>>

DisableSkill(skill_name) ==
  /\ Within("disables")
  /\ SkillCalls < scope.front
  /\ skills' = set_enabled(skills, skill_name, FALSE)
  /\ result' = Returned("disable_skill", <<Named(skills, skill_name) # {}>>)
  /\ calls' = Bump("disables")
  /\ UNCHANGED <<agent_vars, service_vars, now, scope, knowledge_vars,
                 lt_snapshot, chat_vars, limiter, clock, granted>>

\* ------------------------------------------------------------------------
\* RateLimiter
\* ------------------------------------------------------------------------
MinuteWindow == 60
HourWindow == 3600
SecondsPerHour == 3600
DefaultPerMinute == 60
DefaultPerHour == 1000

\* RateLimiter.__init__
RateLimiter(requests_per_minute, requests_per_hour) ==
  [requests_per_minute |-> requests_per_minute,
   requests_per_hour |-> requests_per_hour,
   minute_buckets |-> <<>>,
   hour_buckets |-> <<>>,
   blocked_ips |-> <<>>,
   whitelist |-> {}]

\* defaultdict(list): a missing key reads as the empty list.
Bucket(buckets, identifier) ==
  IF identifier \in DOMAIN buckets THEN buckets[identifier] ELSE <<>>

Put(dict, key, value) == [k \in {key} |-> value] @@ dict

Without(dict, key) == [k \in DOMAIN dict \ {key} |-> dict[k]]

\* (mutant: a request leaves the bucket a second early)
clean_old_requests_early(bucket, seconds, t) ==
  SelectSeq(bucket, LAMBDA r : r > t - seconds + 1)

\* _clean_old_requests with datetime.now() = t
clean_old_requests(bucket, seconds, t) ==
  SelectSeq(bucket, LAMBDA r : r > t - seconds)

Answer(allowed, reason) == [allowed |-> allowed, reason |-> reason]

\* is_allowed.  reads are the values of datetime.now() at the block test,
\* at `now = datetime.now()`, and in the two calls of _clean_old_requests.
is_allowed(rl, identifier, reads) ==
  IF identifier \in rl.whitelist
  THEN [limiter |-> rl, answer |-> Answer(TRUE, "whitelisted")]
  ELSE IF identifier \in DOMAIN rl.blocked_ips /\
          reads[1] < rl.blocked_ips[identifier]
  THEN [limiter |-> rl, answer |-> Answer(FALSE, "blocked")]
  ELSE
    LET unblocked == [rl EXCEPT !.blocked_ips = Without(@, identifier)]
        minute == clean_old_requests(Bucket(rl.minute_buckets, identifier),
                                     MinuteWindow, reads[3])
        hour == clean_old_requests(Bucket(rl.hour_buckets, identifier),
                                   HourWindow, reads[4])
        cleaned == [unblocked EXCEPT
                      !.minute_buckets = Put(@, identifier, minute),
                      !.hour_buckets = Put(@, identifier, hour)]
    IN IF Len(minute) >= rl.requests_per_minute
       THEN [limiter |-> cleaned,
             answer |-> Answer(FALSE, "rate_limit_minute")]
       ELSE IF Len(hour) >= rl.requests_per_hour
       THEN [limiter |-> cleaned, answer |-> Answer(FALSE, "rate_limit_hour")]
       ELSE [limiter |-> [cleaned EXCEPT
                            !.minute_buckets[identifier] = Append(@, reads[2]),
                            !.hour_buckets[identifier] = Append(@, reads[2])],
             answer |-> Answer(TRUE, "")]

\* The clock may advance between two readings of one call: by how much each
\* of the four readings is later than the first.
Lags == {<<0, 0, 0, 0>>, <<0, 0, 0, 1>>, <<0, 0, 1, 1>>, <<0, 1, 1, 1>>}

Grant(identifier, reads) ==
  [identifier |-> identifier, at |-> reads[2], cleaned_minute |-> reads[3],
   cleaned_hour |-> reads[4]]

LimiterCalls ==
  calls.allows + calls.blocks + calls.unblocks + calls.whitens +
  calls.unwhitens

IsAllowed(identifier, lag) ==
  /\ Within("allows")
  /\ LimiterCalls < scope.front
  /\ \E reads \in {[i \in 1..4 |-> clock + lag[i]]} :
     \E out \in {is_allowed(limiter, identifier, reads)} :
        /\ limiter' = out.limiter
        /\ result' = Returned("is_allowed", <<out.answer>>)
        /\ granted' = IF out.answer.allowed /\ out.answer.reason = ""
                      THEN Append(granted, Grant(identifier, reads))
                      ELSE granted
        /\ clock' = reads[4]
  /\ calls' = Bump("allows")
  /\ UNCHANGED <<agent_vars, service_vars, now, scope, knowledge_vars,
                 lt_snapshot, chat_vars, skills>>

LimiterCall(op, next) ==
  /\ Within(op)
  /\ LimiterCalls < scope.front
  /\ limiter' = next
  /\ result' = Returned(op, <<>>)
  /\ calls' = Bump(op)
  /\ UNCHANGED <<agent_vars, service_vars, now, scope, knowledge_vars,
                 lt_snapshot, chat_vars, skills, clock, granted>>

\* block_ip
BlockIp(ip, hours) ==
  LimiterCall("blocks",
    [limiter EXCEPT !.blocked_ips = Put(@, ip, clock + hours * SecondsPerHour)])

\* unblock_ip
UnblockIp(ip) ==
  LimiterCall("unblocks", [limiter EXCEPT !.blocked_ips = Without(@, ip)])

\* add_to_whitelist
AddToWhitelist(identifier) ==
  LimiterCall("whitens", [limiter EXCEPT !.whitelist = @ \cup {identifier}])

\* remove_from_whitelist
RemoveFromWhitelist(identifier) ==
  LimiterCall("unwhitens", [limiter EXCEPT !.whitelist = @ \ {identifier}])

\* Time passes between two calls.
Wait(seconds) ==
  /\ Within("waits")
  /\ clock' = clock + seconds
  /\ calls' = Bump("waits")
  /\ UNCHANGED <<agent_vars, service_vars, now, scope, knowledge_vars,
                 lt_snapshot, result, chat_vars, skills, limiter, granted>>

\* ------------------------------------------------------------------------
\* Specifications
\* ------------------------------------------------------------------------
NoCalls ==
  [adds |-> 0, contexts |-> 0, relevants |-> 0, facts |-> 0, profiles |-> 0,
   messages |-> 0, remembers |-> 0, recalls |-> 0, ticks |-> 0,
   cleanups |-> 0, gets |-> 0, deletes |-> 0, sweeps |-> 0, constructs |-> 0,
   additems |-> 0, searches |-> 0, requests |-> 0, creates |-> 0,
   abandons |-> 0, histories |-> 0, exports |-> 0, chatdeletes |-> 0,
   processed |-> 0, enables |-> 0, disables |-> 0, allows |-> 0,
   blocks |-> 0, unblocks |-> 0, whitens |-> 0, unwhitens |-> 0, waits |-> 0]

\* SkillsManager(kb_service) and RateLimiter(requests_per_minute,
\* requests_per_hour)
FrontConstructedWith(kb_service, requests_per_minute, requests_per_hour) ==
  /\ skills = SkillsManager(kb_service)
  /\ limiter = RateLimiter(requests_per_minute, requests_per_hour)
  /\ clock = 0
  /\ granted = <<>>

\* The skills as ChatManager constructs them, and the module's rate limiter.
FrontConstructed ==
  FrontConstructedWith(TRUE, DefaultPerMinute, DefaultPerHour)

\* MemoryManager() and AdvancedMemoryService(storage_path) with the given
\* long_term.json.
ConstructedFrom(snapshot) ==
  /\ sessions = <<>>
  /\ heap = <<>>
  /\ short_term = <<>>
  /\ long_term = load_memories(snapshot)
  /\ lt_snapshot = snapshot
  /\ now = 0
  /\ added = {}
  /\ calls = NoCalls
  /\ chat_sessions = <<>>
  /\ tasks = <<>>
  /\ FrontConstructed

Unserved ==
  /\ sessions = <<>>
  /\ heap = <<>>
  /\ short_term = <<>>
  /\ long_term = <<>>
  /\ lt_snapshot = NoMemories
  /\ now = 0
  /\ added = {}
  /\ calls = NoCalls
  /\ chat_sessions = <<>>
  /\ tasks = <<>>

Constructed == Unserved /\ FrontConstructed

\* The knowledge base constructed from a snapshot.
Started(file, saved) ==
  LET kb == KnowledgeBaseService(file, saved)
  IN /\ items = kb.items
     /\ db_file = kb.db_file
     /\ result = IF kb.raised = "" THEN Returned("__init__", <<>>)
                 ELSE Raised("__init__", kb.raised)

\* The knowledge base on a cold start: no snapshot, the seed saved.
ColdStart == Started(Absent, TRUE)

\* A specification explores the calls its scope allows: so many calls of
\* each kind (and so many reads and writes in all), with arguments from the
\* sets the scope gives.
NoScope ==
  NoCalls @@ [reads |-> 0, writes |-> 0, service |-> 0, nrecent |-> {},
              queries |-> {},
              limits |-> {}, texts |-> {}, importances |-> {},
              ids |-> SessionIds, hours |-> {}, newitems |-> {},
              registry |-> 0, messages |-> {}, keys |-> {},
              values |-> {}, chat |-> 0, front |-> 0, names |-> {},
              kb_service |-> TRUE, identifiers |-> {}, lags |-> {},
              seconds |-> {},
              requests_per_minute |-> DefaultPerMinute,
              requests_per_hour |-> DefaultPerHour]

CreateOrGet == \E s \in scope.ids : CreateSession(s)

Interact == \E s \in scope.ids, m \in Messages : AddInteraction(s, m)

Context == \E s \in scope.ids, n \in scope.nrecent : GetContext(s, n)

Relevant ==
  \E s \in scope.ids, q \in scope.queries, l \in scope.limits :
     GetRelevantMemories(s, q, l)

Fact ==
  \E s \in scope.ids, f \in scope.texts, i \in scope.importances :
     AddFact(s, f, i)

Profile == \E s \in scope.ids, k \in Keys, v \in Values : UpdateUserProfile(s, k, v)

Message ==
  \E s \in scope.ids, r \in Roles, c \in scope.texts : AddToShortTerm(s, r, c)

Remembering ==
  \E f \in scope.texts, i \in scope.importances, e \in ExpiresInDays :
     Remember(f, i, e)

Recalling ==
  \E q \in scope.queries, l \in scope.limits : Recall(q, None, l)

\* Short sessions and a small advanced service, with every input.
MaxAdds == 3
MaxReads == 2
MaxWrites == 1
MaxMessages == 1
MaxRemembers == 2
MaxRecalls == 1
MaxTicks == 1
MaxServiceCalls == 4

AgentShort ==
  [NoScope EXCEPT !.adds = MaxAdds, !.contexts = MaxReads,
     !.relevants = MaxReads, !.reads = MaxReads, !.facts = MaxWrites,
     !.profiles = MaxWrites, !.writes = MaxWrites, !.nrecent = NRecent,
     !.queries = Queries, !.limits = Limits, !.texts = Facts,
     !.importances = Importances]

ServiceShort ==
  [NoScope EXCEPT !.messages = MaxMessages, !.remembers = MaxRemembers,
     !.recalls = MaxRecalls, !.ticks = MaxTicks, !.service = MaxServiceCalls,
     !.queries = Queries, !.limits = Limits, !.texts = Facts,
     !.importances = {5, 15}]

Init == Constructed /\ ColdStart /\ scope \in {AgentShort, ServiceShort}

Next ==
  \/ CreateOrGet
  \/ Interact
  \/ Context
  \/ Relevant
  \/ Fact
  \/ Profile
  \/ Message
  \/ Remembering
  \/ Recalling
  \/ Tick

Spec == Init /\ [][Next]_vars

\* Sessions that reach the cap, with few other calls; and an advanced
\* service that takes messages up to its cap.
CapAdds == 25
CapReads == 1
CapWrites == 1
CapMessages == 51

AgentCap ==
  [NoScope EXCEPT !.adds = CapAdds, !.contexts = CapReads,
     !.relevants = CapReads, !.reads = CapReads, !.facts = CapWrites,
     !.profiles = CapWrites, !.writes = CapWrites, !.nrecent = {0},
     !.queries = {<<"room">>}, !.limits = {2},
     !.texts = {<<"room", "service">>}, !.importances = {7}]

ServiceCap ==
  [NoScope EXCEPT !.messages = CapMessages, !.service = CapMessages,
     !.texts = {<<"late", "checkout">>}]

InitCap == Constructed /\ ColdStart /\ scope \in {AgentCap, ServiceCap}

NextCap ==
  \/ CreateOrGet
  \/ Interact
  \/ Context
  \/ Relevant
  \/ Fact
  \/ Profile
  \/ Message

SpecCap == InitCap /\ [][NextCap]_vars

\* Sessions that consolidate after get_context has raised access counts,
\* and sessions that consolidate with facts in long-term memory.
ConsAdds == 21
ConsContexts == 3
ConsFacts == 1

AgentCons ==
  [NoScope EXCEPT !.adds = ConsAdds, !.contexts = ConsContexts,
     !.reads = ConsContexts, !.nrecent = {6}]

AgentFacts ==
  [NoScope EXCEPT !.adds = ConsAdds, !.facts = ConsFacts,
     !.writes = ConsFacts, !.texts = {<<"room", "service">>},
     !.importances = {5, 7}]

InitCons == Constructed /\ ColdStart /\ scope \in {AgentCons, AgentFacts}

NextCons == CreateOrGet \/ Interact \/ Context \/ Fact

SpecCons == InitCons /\ [][NextCons]_vars

\* Sessions that consolidate twice.
LongAdds == 32
LongContexts == 3

AgentLong ==
  [NoScope EXCEPT !.adds = LongAdds, !.contexts = LongContexts,
     !.reads = LongContexts, !.nrecent = {6}]

InitLong == Constructed /\ ColdStart /\ scope = AgentLong

NextLong == CreateOrGet \/ Interact \/ Context

SpecLong == InitLong /\ [][NextLong]_vars

\* Sessions that consolidate and are then searched.
AliasAdds == 21
AliasContexts == 3
AliasRelevants == 1

AgentAlias ==
  [NoScope EXCEPT !.adds = AliasAdds, !.contexts = AliasContexts,
     !.relevants = AliasRelevants, !.reads = AliasContexts + AliasRelevants,
     !.nrecent = {6}, !.queries = {<<"room">>}, !.limits = {12}]

InitAlias == Constructed /\ ColdStart /\ scope = AgentAlias

NextAlias == CreateOrGet \/ Interact \/ Context \/ Relevant

SpecAlias == InitAlias /\ [][NextAlias]_vars

Constructing == \E saved \in BOOLEAN : Construct(saved)

Adding ==
  \E item \in scope.newitems, saved \in BOOLEAN :
     AddItem(item.title, item.content, item.category, item.tags, saved)

Searching == \E q \in scope.queries, l \in scope.limits : Search(q, l)

GettingOrCreating == \E s \in scope.ids : GetOrCreateMemory(s)

Deleting == \E s \in scope.ids : DeleteSessionMemory(s)

Sweeping == \E h \in scope.hours : CleanupOldSessions(h)

\* The three searches, each over a store with some content.
SearchAdds == 2
SearchRelevants == 2
SearchFacts == 1
SearchRemembers == 2
SearchRecalls == 2
SearchItems == 1
SearchSearches == 2

AgentSearch ==
  [NoScope EXCEPT !.adds = SearchAdds, !.relevants = SearchRelevants,
     !.reads = SearchRelevants, !.facts = SearchFacts,
     !.writes = SearchFacts, !.queries = Queries, !.limits = Limits,
     !.texts = Facts, !.importances = {7}]

ServiceSearch ==
  [NoScope EXCEPT !.remembers = SearchRemembers, !.recalls = SearchRecalls,
     !.service = SearchRemembers + SearchRecalls, !.queries = Queries,
     !.limits = Limits, !.texts = Facts, !.importances = {5}]

KnowledgeSearch ==
  [NoScope EXCEPT !.additems = SearchItems, !.searches = SearchSearches,
     !.queries = KbQueries, !.limits = {1, 5}, !.newitems = NewItems]

InitSearch ==
  Constructed /\ ColdStart /\
  scope \in {AgentSearch, ServiceSearch, KnowledgeSearch}

NextSearch ==
  \/ CreateOrGet
  \/ Interact
  \/ Fact
  \/ Relevant
  \/ Remembering
  \/ Recalling
  \/ Adding
  \/ Searching

SpecSearch == InitSearch /\ [][NextSearch]_vars

\* The knowledge base, started from every kind of snapshot, extended,
\* searched and started again.
Snapshots == {Absent, Unparsable, JsonList(<<>>), JsonObject, JsonNull}

KbConstructs == 1
KbAdds == 2
KbSearches == 1

Knowledge ==
  [NoScope EXCEPT !.constructs = KbConstructs, !.additems = KbAdds,
     !.searches = KbSearches, !.queries = KbQueries, !.limits = KbLimits,
     !.newitems = NewItems]

InitKnowledge ==
  /\ Constructed
  /\ scope = Knowledge
  /\ \E file \in Snapshots, saved \in BOOLEAN : Started(file, saved)

NextKnowledge ==
  \/ Constructing
  \/ Adding
  \/ Searching

SpecKnowledge == InitKnowledge /\ [][NextKnowledge]_vars

\* Both persistent stores, constructed from sound and from corrupted
\* snapshots, then searched.
GoodMemory == MemoryRecord(TRUE, Memory(<<"room", "service">>, "fact", 5, None, 0))

OtherMemory == MemoryRecord(TRUE, Memory(<<"late", "checkout">>, "fact", 5, None, 0))

BadMemory == MemoryRecord(FALSE, Memory(<<"room">>, "fact", 5, None, 0))

MemorySnapshots ==
  {NoMemories, MemorySnapshot("unparsable", <<>>), MemorySnapshot("list", <<>>),
   MemorySnapshot("dict", <<GoodMemory, OtherMemory>>),
   MemorySnapshot("dict", <<GoodMemory, BadMemory, OtherMemory>>),
   MemorySnapshot("dict", <<BadMemory, GoodMemory>>)}

SnapConstructs == 1
SnapSearches == 1
SnapRecalls == 2

Stored ==
  [NoScope EXCEPT !.constructs = SnapConstructs, !.searches = SnapSearches,
     !.recalls = SnapRecalls, !.service = SnapRecalls,
     !.queries = {<<"room">>, <<"manage">>}, !.limits = {1, 5}]

InitSnapshot ==
  /\ scope = Stored
  /\ \E snapshot \in MemorySnapshots : ConstructedFrom(snapshot)
  /\ \E file \in Snapshots, saved \in BOOLEAN : Started(file, saved)

NextSnapshot ==
  \/ Constructing
  \/ Searching
  \/ Recalling

SpecSnapshot == InitSnapshot /\ [][NextSnapshot]_vars

\* The registry with two session ids: sessions are created, used, deleted
\* and swept as the clock advances.
RegistryIds == {"s1", "s2"}

RegGets == 2
RegAdds == 1
RegReads == 1
RegWrites == 1
RegDeletes == 1
RegSweeps == 1
RegTicks == 1
RegCalls == 3

Registry ==
  [NoScope EXCEPT !.ids = RegistryIds, !.gets = RegGets, !.adds = RegAdds,
     !.contexts = RegReads, !.relevants = RegReads, !.reads = RegReads,
     !.profiles = RegWrites, !.writes = RegWrites, !.deletes = RegDeletes,
     !.sweeps = RegSweeps, !.registry = RegCalls, !.ticks = RegTicks,
     !.service = RegTicks,
     !.hours = Hours, !.nrecent = {2}, !.queries = {<<"room">>},
     !.limits = {2}]

InitRegistry == Constructed /\ ColdStart /\ scope = Registry

NextRegistry ==
  \/ GettingOrCreating
  \/ Interact
  \/ Context
  \/ Relevant
  \/ Profile
  \/ Deleting
  \/ Sweeping
  \/ Tick

SpecRegistry == InitRegistry /\ [][NextRegistry]_vars

\* Memories with and without expiry, recalled and cleaned up as the
\* clock advances.
Cleaning == CleanupExpired

ExpRemembers == 2
ExpRecalls == 1
ExpCleanups == 1
ExpTicks == 2
ExpCalls == 6

ServiceExpiry ==
  [NoScope EXCEPT !.remembers = ExpRemembers, !.recalls = ExpRecalls,
     !.cleanups = ExpCleanups, !.ticks = ExpTicks, !.service = ExpCalls,
     !.queries = {<<"room">>, <<"Room", "checkout">>}, !.limits = Limits,
     !.texts = Facts, !.importances = {5}]

InitExpiry == Constructed /\ ColdStart /\ scope = ServiceExpiry

NextExpiry ==
  \/ Remembering
  \/ Recalling
  \/ Cleaning
  \/ Tick

SpecExpiry == InitExpiry /\ [][NextExpiry]_vars

\* Conversations on several topics, and a conversation long enough to
\* consolidate; the other operations of a session in between.
TopicMessages ==
  {<<"hello">>, <<"rooms">>, <<"notebook", "Room">>, <<"report">>}

Talking == \E s \in scope.ids, m \in scope.messages : AddInteraction(s, m)

TopicAdds == 3
TopicReads == 1
TopicWrites == 1
TopicConsAdds == 21

TopicsTalk ==
  [NoScope EXCEPT !.adds = TopicAdds, !.contexts = TopicReads,
     !.relevants = TopicReads, !.reads = TopicReads, !.facts = TopicWrites,
     !.profiles = TopicWrites, !.writes = TopicWrites, !.nrecent = {2},
     !.queries = {<<"room">>}, !.limits = {2}, !.texts = {<<"room", "service">>},
     !.importances = {7}, !.messages = TopicMessages]

TopicsCons ==
  [NoScope EXCEPT !.adds = TopicConsAdds, !.messages = {<<"notebook", "Room">>}]

InitTopics == Constructed /\ ColdStart /\ scope \in {TopicsTalk, TopicsCons}

NextTopics ==
  \/ CreateOrGet
  \/ Talking
  \/ Context
  \/ Relevant
  \/ Fact
  \/ Profile

SpecTopics == InitTopics /\ [][NextTopics]_vars

\* A session whose profile is written several times, with keys and values
\* that repeat, between interactions and reads.
ProfileKeys == {"lang", "floor"}

ProfileValues == {"he", "en"}

Profiling ==
  \E s \in scope.ids, k \in scope.keys, v \in scope.values :
     UpdateUserProfile(s, k, v)

ProfAdds == 2
ProfReads == 1
ProfWrites == 3

AgentProfile ==
  [NoScope EXCEPT !.adds = ProfAdds, !.contexts = ProfReads,
     !.reads = ProfReads, !.profiles = ProfWrites, !.writes = ProfWrites,
     !.nrecent = {2}, !.keys = ProfileKeys, !.values = ProfileValues]

InitProfile == Constructed /\ ColdStart /\ scope = AgentProfile

NextProfile ==
  \/ CreateOrGet
  \/ Interact
  \/ Context
  \/ Profiling

SpecProfile == InitProfile /\ [][NextProfile]_vars

\* The chat manager serving requests that overlap, while histories and
\* memories are read, sessions are deleted and memories swept; and a
\* session that has been served often enough to consolidate.
ChatMessages == {<<"show", "Room", "report">>, <<"please", "book", "now">>}

ChatIds == {"s1", "s9"}

Requesting ==
  \E id \in {None} \cup {<<k>> : k \in scope.ids}, m \in scope.messages :
     ProcessMessage(id, m)

Generating == \E t \in DOMAIN tasks : Generated(t)

Abandoning == \E t \in DOMAIN tasks : Abandoned(t)

ReadingHistory == \E id \in scope.ids : GetHistory(id)

ReadingMemory == \E id \in scope.ids : GetSessionMemory(id)

DeletingSession == \E id \in scope.ids : DeleteSession(id)

SweepingMemories == \E h \in scope.hours : CleanupWhileServing(h)

\* The state after the requests first..last have been served one after the
\* other, each for session "s1" with the same message.
ServedMessage == <<"show", "Room", "report">>

served_one(st, i) ==
  LET begun == process_begin(st, IF i = 1 THEN None ELSE <<"s1">>,
                             ServedMessage, create_session_id(1), 0)
      task == Task(begun.session_id, ServedMessage, begun.recent_messages, i, i)
      done == process_finish(begun, task, i)
  IN [chat |-> done.chat, mem |-> done.mem, heap |-> done.heap,
      tasks |-> [k \in 1..i |-> IF k = i THEN task ELSE st.tasks[k]]]

RECURSIVE ServedFrom(_, _, _)
ServedFrom(first, last, st) ==
  IF first > last THEN st
  ELSE ServedFrom(first + 1, last,
                  CHOOSE next \in {served_one(x, first) : x \in {st}} : TRUE)

Served(n) ==
  ServedFrom(1, n, [chat |-> <<>>, mem |-> <<>>, heap |-> <<>>, tasks |-> <<>>])

TalkRequests == 2
TalkOthers == 1
EvictRequests == 2
EvictOthers == 2
EvictTicks == 1
ChatServed == 19
ChatConsRequests == 3
ChatConsOthers == 1

ChatTalk ==
  [NoScope EXCEPT !.ids = ChatIds, !.messages = ChatMessages,
     !.requests = TalkRequests, !.abandons = TalkOthers,
     !.histories = TalkOthers, !.exports = TalkOthers, !.chat = TalkOthers]

ChatEvict ==
  [NoScope EXCEPT !.ids = ChatIds, !.messages = {ServedMessage},
     !.requests = EvictRequests, !.exports = EvictOthers, !.chatdeletes = EvictOthers,
     !.sweeps = EvictOthers, !.chat = EvictOthers, !.ticks = EvictTicks,
     !.service = EvictTicks, !.hours = {0}]

ChatCons ==
  [NoScope EXCEPT !.ids = {"s1"}, !.messages = {ServedMessage},
     !.requests = ChatServed + ChatConsRequests, !.abandons = ChatConsOthers,
     !.histories = ChatConsOthers, !.chat = ChatConsOthers]

InitServed ==
  \E st \in {Served(ChatServed)} :
     /\ chat_sessions = st.chat
     /\ sessions = st.mem
     /\ heap = st.heap
     /\ tasks = st.tasks
     /\ added = 1..ChatServed
     /\ calls = [NoCalls EXCEPT !.requests = ChatServed, !.adds = ChatServed,
                                !.creates = 1]
     /\ short_term = <<>>
     /\ long_term = <<>>
     /\ lt_snapshot = NoMemories
     /\ now = 0
     /\ FrontConstructed

InitChat ==
  \/ Constructed /\ ColdStart /\ scope \in {ChatTalk, ChatEvict}
  \/ InitServed /\ ColdStart /\ scope = ChatCons

NextChat ==
  \/ Requesting
  \/ Generating
  \/ Abandoning
  \/ ReadingHistory
  \/ ReadingMemory
  \/ DeletingSession
  \/ SweepingMemories
  \/ Tick

SpecChat == InitChat /\ [][NextChat]_vars

\* The skills: queries that match several of them, with a knowledge base
\* that answers or raises, and skills switched off and on again.
SkillQueries ==
  {<<"hello">>, <<"Book", "meida", "report">>, <<"notebook", "error">>}

SkillNames ==
  {SkillsManager(TRUE)[i].name : i \in 1..Len(SkillsManager(TRUE))} \cup
  {"no such skill"}

Processing ==
  \E q \in scope.messages, kb_raises \in BOOLEAN : ProcessQuery(q, kb_raises)

Enabling == \E n \in scope.names : EnableSkill(n)

Disabling == \E n \in scope.names : DisableSkill(n)

SkillProcessed == 2
SkillEnables == 1
SkillDisables == 2
SkillCallsMax == 4

SkillsWith(kb_service) ==
  [NoScope EXCEPT !.processed = SkillProcessed, !.enables = SkillEnables,
     !.disables = SkillDisables, !.front = SkillCallsMax,
     !.messages = SkillQueries, !.names = SkillNames,
     !.kb_service = kb_service]

InitSkills ==
  /\ scope \in {SkillsWith(TRUE), SkillsWith(FALSE)}
  /\ Unserved
  /\ ColdStart
  /\ FrontConstructedWith(scope.kb_service, DefaultPerMinute, DefaultPerHour)

NextSkills ==
  \/ Processing
  \/ Enabling
  \/ Disabling

SpecSkills == InitSkills /\ [][NextSkills]_vars

\* The rate limiter with small limits <<requests_per_minute,
\* requests_per_hour>>: one client calling around the ends of the two
\* windows, and clients blocked, unblocked and whitelisted.
SmallLimits == {<<1, 2>>}

Clients == {"10.0.0.1"}

QuotaSeconds == {59, 60, 3480}

GateSeconds == {1, 3599}

BlockHours == {0, 1}

QuotaLags == {lag \in Lags : lag[2] = 0}

GateLags == {lag \in Lags : lag[2] = lag[4]}

Asking == \E c \in scope.identifiers, lag \in scope.lags : IsAllowed(c, lag)

Blocking == \E c \in scope.identifiers, h \in scope.hours : BlockIp(c, h)

Unblocking == \E c \in scope.identifiers : UnblockIp(c)

Whitelisting == \E c \in scope.identifiers : AddToWhitelist(c)

Unwhitelisting == \E c \in scope.identifiers : RemoveFromWhitelist(c)

Waiting == \E d \in scope.seconds : Wait(d)

QuotaAllows == 4
QuotaWaits == 3
GateAllows == 2
GateCalls == 1
GateFront == 4
GateWaits == 2

Quota(limits) ==
  [NoScope EXCEPT !.allows = QuotaAllows, !.front = QuotaAllows,
     !.waits = QuotaWaits, !.identifiers = Clients, !.lags = QuotaLags,
     !.seconds = QuotaSeconds, !.requests_per_minute = limits[1],
     !.requests_per_hour = limits[2]]

Gate ==
  [NoScope EXCEPT !.allows = GateAllows, !.blocks = GateCalls,
     !.unblocks = GateCalls, !.whitens = GateCalls, !.unwhitens = GateCalls,
     !.front = GateFront, !.waits = GateWaits,
     !.identifiers = Clients, !.lags = GateLags, !.seconds = GateSeconds,
     !.hours = BlockHours, !.requests_per_minute = 2,
     !.requests_per_hour = 3]

InitLimiter ==
  /\ scope \in {Quota(limits) : limits \in SmallLimits} \cup {Gate}
  /\ Unserved
  /\ ColdStart
  /\ FrontConstructedWith(TRUE, scope.requests_per_minute,
                          scope.requests_per_hour)

NextLimiter ==
  \/ Asking
  \/ Blocking
  \/ Unblocking
  \/ Whitelisting
  \/ Unwhitelisting
  \/ Waiting

SpecLimiter == InitLimiter /\ [][NextLimiter]_vars

\* ------------------------------------------------------------------------
\* Properties
\* ------------------------------------------------------------------------
ShortTerm(s) == sessions[s].short_term_memory

LongTerm(s) == sessions[s].long_term_memory

OnlyAdds(n) == calls = [NoCalls EXCEPT !.adds = n]

\* The step is a call of add_interaction on session s; the list it appends
\* to; whether it consolidates; and the entries as the consolidation sees
\* them (the new entry is kept by the step, so it is in the heap after it).
AddsTo(s) == s \in DOMAIN sessions /\ calls'.adds = calls.adds + 1

Pending(s) == Append(ShortTerm(s), NewInteraction)

Consolidates(s) == AddsTo(s) /\ Len(Pending(s)) > 20

AtConsolidation ==
  [i \in DOMAIN heap \cup {NewInteraction} |->
     IF i = NewInteraction THEN heap'[i] ELSE heap[i]]

\* Position j of the list comes before position p in the ranking by
\* (importance, accessCount) descending, ties in insertion order.
Outranks(h, short, j, p) ==
  LET a == h[short[j]]
      b == h[short[p]]
  IN \/ a.importance > b.importance
     \/ a.importance = b.importance /\ a.access_count > b.access_count
     \/ a.importance = b.importance /\ a.access_count = b.access_count /\ j < p

TopFive(h, short) ==
  {short[p] : p \in {q \in 1..Len(short) :
      Cardinality({j \in 1..Len(short) : Outranks(h, short, j, q)}) < 5}}

\* C1: between public operations short_term_memory of every session holds at
\* most 20 entries, and every short-term list of the advanced service holds
\* at most 50 messages.
C1_ShortTermCapped ==
  /\ \A s \in DOMAIN sessions : Len(ShortTerm(s)) <= ShortTermCap
  /\ \A s \in DOMAIN short_term : Len(short_term[s]) <= AdvShortTermCap

\* The advanced service has taken more messages than its cap and holds
\* exactly the cap.
C1_Witness ==
  \E s \in DOMAIN short_term :
     calls.messages > AdvShortTermCap /\ Len(short_term[s]) = AdvShortTermCap

\* C2: every entry add_interaction ever appended is still in short-term or
\* in long-term memory.
C2_NoInteractionDropped ==
  \A id \in added : \E s \in DOMAIN sessions : id \in Live(sessions[s])

\* C3 as stated: after exactly 25 add_interaction calls short-term memory
\* holds exactly 10 entries.
C3_TenAfterTwentyFive ==
  \A s \in DOMAIN sessions : calls.adds = 25 => Len(ShortTerm(s)) = KeepRecent

\* C3 as amended: after exactly 25 add_interaction calls short-term memory
\* holds exactly 14 entries (the 10 kept by the consolidation of the 21st
\* call and the 4 appended since); and every entry that is among the top 5
\* by (importance, accessCount) at a consolidation and has importance > 0.6
\* is in long-term memory after it.
C3_FourteenAfterTwentyFive ==
  /\ [](\A s \in DOMAIN sessions :
          calls.adds = 25 => ShortTerm(s) = [i \in 1..14 |-> 11 + i])
  /\ [][\A s \in DOMAIN sessions :
          Consolidates(s) =>
            \A id \in TopFive(AtConsolidation, Pending(s)) :
               AtConsolidation[id].importance > 6
                  => id \in Range(sessions'[s].long_term_memory)]_vars

C3_Witness ==
  \E s \in DOMAIN sessions :
     calls.adds = 25 /\ calls.contexts + calls.relevants > 0 /\ Writes > 0

C5_PromotionRule ==
  [][\A s \in DOMAIN sessions :
       Consolidates(s) =>
         LET h == AtConsolidation
             short == Pending(s)
             old == LongTerm(s)
             new == sessions'[s].long_term_memory
             promoted == SubSeq(new, Len(old) + 1, Len(new))
         IN /\ Len(new) >= Len(old)
            /\ SubSeq(new, 1, Len(old)) = old
            /\ \A id \in Range(short) \cup Range(new) :
                 Occurrences(promoted, id) =
                   IF /\ id \in TopFive(h, short)
                      /\ (h[id].importance > 6 \/ h[id].access_count > 2)
                   THEN 1 ELSE 0]_vars

\* A consolidation has promoted five entries and has left a sixth entry with
\* accessCount > 2 behind, in the tail it keeps.
C5_Witness ==
  \E s \in DOMAIN sessions :
     /\ Len(LongTerm(s)) = 5
     /\ \E id \in Range(ShortTerm(s)) :
          id \notin Range(LongTerm(s)) /\ heap[id].access_count > 2

\* C6: a call changes short-term memory only by appending the new entry, or,
\* in an add_interaction call that makes the length exceed 20, by leaving
\* exactly the 10 most recently appended entries in their order.
C6_TailTruncation ==
  [][\A s \in DOMAIN sessions :
       LET old == ShortTerm(s)
           new == sessions'[s].short_term_memory
           all == Pending(s)
       IN \/ new = old /\ ~AddsTo(s)
          \/ AddsTo(s) /\ Len(all) <= 20 /\ new = all
          \/ AddsTo(s) /\ Len(all) > 20
               /\ new = [i \in 1..10 |-> all[Len(all) - 10 + i]]]_vars

\* Right after a consolidation, with promoted entries both inside and
\* outside the tail that was kept.
C6_Witness ==
  \E s \in DOMAIN sessions :
     /\ calls.adds = 21 /\ Len(ShortTerm(s)) = 10
     /\ \E id \in Range(LongTerm(s)) : id \in Range(ShortTerm(s))
     /\ \E id \in Range(LongTerm(s)) : id \notin Range(ShortTerm(s))

\* finalScore of the specification for an entry with the given content,
\* importance and accessCount, times the positive constant 100 * |query|.
FinalScore(query, e) ==
  Overlap(query, e.content) * e.importance * (10 + e.access_count)

Matches(query, e) == Overlap(query, e.content) > 0

\* `returned` (positions of `all`, in the order of the result) is ordered by
\* By descending, and no matching position that is left out has a higher
\* By than one that is returned.
BestFirst(all, returned, Matching(_), By(_)) ==
  /\ \A i, j \in 1..Len(returned) : i < j => By(returned[i]) >= By(returned[j])
  /\ \A i \in 1..Len(returned) : \A p \in 1..Len(all) :
        (Matching(p) /\ \A j \in 1..Len(returned) : all[returned[j]] # all[p])
           => By(returned[i]) >= By(p)

\* The position in `all` of every entry of the result `ids` (sessions of this
\* size hold no entry twice).
PositionsOf(all, ids) ==
  [i \in 1..Len(ids) |-> CHOOSE p \in 1..Len(all) : all[p] = ids[i]]

AgentBestFirst(s, query, limit, Value(_, _)) ==
  LET all == all_memories(sessions[s])
      returned == PositionsOf(all, relevant(heap, sessions[s], query, limit))
      Matching(p) == Matches(query, heap[all[p]]) /\ heap[all[p]].importance > 0
      By(p) == Value(query, heap[all[p]])
  IN BestFirst(all, returned, Matching, By)

ServiceBestFirst(query, limit) ==
  LET returned == recalled(long_term, query, None, limit, now)
      Matching(p) == Matches(query, long_term[p]) /\ ~Expired(long_term[p], now)
      By(p) == FinalScore(query, long_term[p])
  IN BestFirst(long_term, returned, Matching, By)

PlainScore(query, e) == Overlap(query, e.content) * e.importance

\* Entries of the result with equal By stand in the order of `all`.
TiesInOrder(returned, By(_)) ==
  \A i, j \in 1..Len(returned) :
     (i < j /\ By(returned[i]) = By(returned[j])) => returned[i] < returned[j]

AgentTiesInOrder(s, query, limit) ==
  LET all == all_memories(sessions[s])
      returned == PositionsOf(all, relevant(heap, sessions[s], query, limit))
      By(p) == PlainScore(query, heap[all[p]])
  IN TiesInOrder(returned, By)

\* C7 as stated: get_relevant_memories and recall return the matching
\* entries ordered by finalScore descending: of two matching entries with
\* different finalScore the higher one comes first, and is the one kept when
\* the limit cuts between them.
C7_OrderedByFinalScore ==
  /\ \A s \in DOMAIN sessions : \A q \in Queries, l \in Limits :
        AgentBestFirst(s, q, l, FinalScore)
  /\ \A q \in Queries, l \in Limits : ServiceBestFirst(q, l)

\* C7 as amended: get_relevant_memories orders by overlap * importance
\* descending (the access count does not enter its score), recall orders by
\* finalScore descending; in both, of two matching entries with different
\* scores the higher one comes first and is the one the limit keeps, and
\* get_relevant_memories returns entries of equal score in their original
\* order.
C7_OrderedByOwnScore ==
  /\ \A s \in DOMAIN sessions : \A q \in Queries, l \in Limits :
        AgentBestFirst(s, q, l, PlainScore) /\ AgentTiesInOrder(s, q, l)
  /\ \A q \in Queries, l \in Limits : ServiceBestFirst(q, l)

\* get_relevant_memories has been called, and the session holds two entries
\* that match a query with the same overlap * importance of which the later
\* one has been accessed more often.
C7_Witness ==
  /\ calls.relevants > 0
  /\ \E s \in DOMAIN sessions : \E q \in Queries :
       LET all == all_memories(sessions[s])
       IN \E i, j \in 1..Len(all) :
            /\ i < j
            /\ PlainScore(q, heap[all[i]]) > 0
            /\ PlainScore(q, heap[all[i]]) = PlainScore(q, heap[all[j]])
            /\ heap[all[i]].access_count < heap[all[j]].access_count

NoDuplicates(seq) == \A i, j \in 1..Len(seq) : i # j => seq[i] # seq[j]

\* C8: a call of get_relevant_memories (or recall) returns no entry twice,
\* raises accessCount by exactly 1 for every entry it returns and leaves the
\* accessCount of every other entry unchanged.
C8_AccessBookkeeping ==
  [][/\ \A s \in DOMAIN sessions : \A q \in scope.queries, l \in scope.limits :
          GetRelevantMemories(s, q, l) =>
            LET returned == relevant(heap, sessions[s], q, l)
            IN /\ NoDuplicates(returned)
               /\ \A id \in DOMAIN heap :
                    heap'[id].access_count = heap[id].access_count +
                       (IF id \in Range(returned) THEN 1 ELSE 0)
     /\ \A q \in scope.queries, l \in scope.limits :
          Recall(q, None, l) =>
            LET returned == recalled(long_term, q, None, l, now)
            IN /\ NoDuplicates(returned)
               /\ \A p \in 1..Len(long_term) :
                    long_term'[p].access_count = long_term[p].access_count +
                       (IF p \in Range(returned) THEN 1 ELSE 0)]_vars

\* C9: no entry occurs more than once in long-term memory.
C9_LongTermIsASet ==
  \A s \in DOMAIN sessions : NoDuplicates(LongTerm(s))

\* C10: every stored entry has 0 <= importance <= 1 and accessCount >= 0,
\* and no operation changes the importance of an entry.
C10_EntryInvariant ==
  /\ [](/\ \A id \in DOMAIN heap :
             /\ 0 <= heap[id].importance /\ heap[id].importance <= 10
             /\ heap[id].access_count >= 0
        /\ \A p \in 1..Len(long_term) :
             /\ 0 <= long_term[p].importance /\ long_term[p].importance <= 10
             /\ long_term[p].access_count >= 0)
  /\ [][/\ \A id \in DOMAIN heap \cap DOMAIN heap' :
             heap'[id].importance = heap[id].importance
        /\ \A p \in 1..Len(long_term) :
             Len(long_term') >= p /\ long_term'[p].id = long_term[p].id
                => long_term'[p].importance = long_term[p].importance]_vars

\* The expiry time of the memory lies before the current time.
Past(memory) == memory.expires_at # None /\ memory.expires_at[1] < now

\* C11: recall never returns, and never changes the accessCount of, a
\* memory whose expiresAt is earlier than the current time; cleanup_expired
\* removes exactly the memories whose expiresAt is earlier than now, leaves
\* all others and returns the number removed.
C11_Expiry ==
  [][/\ (calls'.recalls = calls.recalls + 1) =>
          /\ \A p \in 1..Len(long_term) :
                Past(long_term[p]) => long_term'[p] = long_term[p]
          /\ \A q \in scope.queries, l \in scope.limits :
                \A p \in Range(recalled(long_term, q, None, l, now)) :
                   ~Past(long_term[p])
     /\ (calls'.cleanups = calls.cleanups + 1) =>
          /\ long_term' = SelectSeq(long_term, LAMBDA memory : ~Past(memory))
          /\ result'.op = "cleanup_expired"
          /\ result'.returned =
               <<Cardinality({p \in 1..Len(long_term) : Past(long_term[p])})>>
    ]_vars

\* cleanup_expired has removed one memory and kept another, after a recall.
C11_Witness ==
  /\ result.op = "cleanup_expired"
  /\ result.returned = <<1>>
  /\ calls.recalls > 0
  /\ Len(long_term) > 0

\* The queries of the model that tokenize to no word: for the memories
\* (str.split) the empty text, for the knowledge base (\w+) also "?!".
WordlessQueries == {q \in KbQueries : KbWords(q) = {}}

\* C12: a query that tokenizes to zero words yields an empty result and no
\* error in KnowledgeBaseService.search, AgentMemory.get_relevant_memories
\* and AdvancedMemoryService.recall, whatever the store holds, and changes
\* no entry's accessCount.
C12_EmptyQuery ==
  /\ [](/\ \A s \in DOMAIN sessions : \A l \in Limits :
             relevant(heap, sessions[s], <<>>, l) = <<>>
        /\ \A l \in Limits : recalled(long_term, <<>>, None, l, now) = <<>>
        /\ Available =>
             \A q \in WordlessQueries, l \in KbLimits :
                search(items.elems, q, l) = <<>>)
  /\ [][/\ \A s \in DOMAIN sessions : \A l \in Limits :
             GetRelevantMemories(s, <<>>, l) => heap' = heap
        /\ \A l \in Limits : Recall(<<>>, None, l) => long_term' = long_term
        /\ \A q \in WordlessQueries, l \in KbLimits :
             Search(q, l) => result' = Returned("search", <<>>)]_vars

\* A search of the knowledge base with a positive limit returned nothing
\* although an item was added to the seed (only a query without words
\* matches no seeded item).
C12_Witness ==
  /\ result = Returned("search", <<>>)
  /\ calls.additems > 0
  /\ Len(items.elems) > Len(base_knowledge)

\* The number of words of the query that the item's title, content and
\* tags hold.
Common(q, item) ==
  Cardinality(KbWords(q) \cap
              (KbWords(item.title) \cup KbWords(item.content) \cup
               KbWords(item.tags)))

\* C13: search(query, limit) returns at most `limit` items, exactly the
\* highest-relevance items with relevance > 0, ordered by relevance
\* descending with ties in insertion order (so an item sharing 3 query words
\* ranks before one sharing 1).
C13_SearchRanking ==
  Available =>
    \A q \in KbQueries, l \in KbLimits :
       LET elems == items.elems
           top == found(elems, q, l)
           res == search(elems, q, l)
           matching == {p \in 1..Len(elems) : Common(q, elems[p]) > 0}
       IN /\ Len(res) = Min(l, Cardinality(matching))
          /\ Len(top) = Len(res)
          /\ \A i \in 1..Len(res) :
                /\ top[i] \in matching
                /\ res[i].content = elems[top[i]].content
                /\ res[i].metadata.title = elems[top[i]].title
          /\ \A i, j \in 1..Len(top) :
                i < j =>
                  \/ Common(q, elems[top[i]]) > Common(q, elems[top[j]])
                  \/ /\ Common(q, elems[top[i]]) = Common(q, elems[top[j]])
                     /\ top[i] < top[j]
          /\ \A i \in 1..Len(top) : \A p \in matching \ Range(top) :
                \/ Common(q, elems[top[i]]) > Common(q, elems[p])
                \/ /\ Common(q, elems[top[i]]) = Common(q, elems[p])
                   /\ top[i] < p

\* A search returned the rooms article (3 common words) before the
\* reservations article (1 common word), which is stored before it.
C13_Witness ==
  /\ result.op = "search"
  /\ Len(result.returned) >= 2
  /\ result.returned[1].metadata.category = "rooms"
  /\ result.returned[2].metadata.category = "reservations"

\* C14: every result of search has distance = 1 - overlap / |queryWords|,
\* so 0 <= distance < 1; an item holding every query word has distance 0,
\* and an item sharing no word with the query is not returned.
C14_DistanceInversion ==
  Available =>
    \A q \in KbQueries, l \in KbLimits :
       LET elems == items.elems
           top == found(elems, q, l)
           res == search(elems, q, l)
           n == Cardinality(KbWords(q))
       IN \A i \in 1..Len(res) :
             LET d == res[i].distance
                 k == Common(q, elems[top[i]])
             IN /\ d[2] > 0
                /\ d[1] * n = (n - k) * d[2]
                /\ 0 <= d[1] /\ d[1] < d[2]
                /\ (k = n) => d[1] = 0
                /\ k > 0

\* A search returned one item with distance 0 and one with a larger
\* distance.
C14_Witness ==
  /\ result.op = "search"
  /\ \E i, j \in 1..Len(result.returned) :
        /\ result.returned[i].distance[1] = 0
        /\ result.returned[j].distance[1] > 0

Ids(elems) == [p \in 1..Len(elems) |-> elems[p].id]

\* C15: no two stored items share an id, the id add_item returns differs
\* from every id already stored, and no operation of the service changes
\* the id of a stored item.
C15_UniqueStableIds ==
  /\ [](Available => NoDuplicates(Ids(items.elems)))
  /\ [][/\ (calls'.additems = calls.additems + 1) =>
             /\ result'.op = "add_item"
             /\ \A p \in 1..Len(items.elems) :
                   result'.returned[1] # items.elems[p].id
             /\ items'.elems[Len(items'.elems)].id = result'.returned[1]
        /\ (calls'.constructs = calls.constructs) =>
             \A p \in 1..Len(items.elems) :
                items'.elems[p].id = items.elems[p].id]_vars

\* A store that was loaded from a snapshot has taken two more items.
C15_Witness ==
  /\ result.op = "add_item"
  /\ calls.constructs > 0
  /\ calls.additems = 2
  /\ Len(items.elems) = Len(base_knowledge) + 2

\* The snapshot holds no item: there is no file, no JSON in it, or the
\* empty list.
HoldsNothing(file) ==
  \/ file.kind \in {"absent", "unparsable"}
  \/ file.kind = "list" /\ file.elems = <<>>

IsSeed(elems) ==
  /\ Len(elems) = 5
  /\ \A i \in 1..5 :
        /\ elems[i].title = base_knowledge[i].title
        /\ elems[i].content = base_knowledge[i].content
        /\ elems[i].category = base_knowledge[i].category
        /\ elems[i].tags = base_knowledge[i].tags

\* C16: a construction that finds no stored item seeds the store with
\* exactly the 5 baseline articles in their order; the item list is never
\* empty after construction; a store loaded with at least one item is not
\* seeded.
C16_Bootstrap ==
  /\ [](Available => Len(items.elems) > 0)
  /\ [](Available /\ calls.constructs = 0 /\ calls.additems = 0
          => IsSeed(items.elems))
  /\ [][(calls'.constructs = calls.constructs + 1) =>
          /\ HoldsNothing(db_file) =>
               result'.raised = "" /\ IsSeed(items'.elems)
          /\ (db_file.kind = "list" /\ Len(db_file.elems) > 0) =>
               result'.raised = "" /\ items' = db_file]_vars

\* A store was constructed from a snapshot with more than the seed and
\* holds what the snapshot held.
C16_Witness ==
  /\ result.op = "__init__"
  /\ result.raised = ""
  /\ calls.constructs > 0
  /\ Len(items.elems) > 5

\* The knowledge snapshot is a file without JSON, or JSON that is no list.
CorruptedFile(file) == file.kind \in {"unparsable", "dict", "null"}

\* long_term.json is a file without JSON, JSON that is no object, or an
\* object with a record that is no memory.
CorruptedMemories(snapshot) ==
  \/ snapshot.kind \in {"unparsable", "list"}
  \/ \E i \in 1..Len(snapshot.records) : ~snapshot.records[i].ok

\* C17: a corrupted snapshot never makes construction or a later search or
\* recall fail; the store behaves as if it had started empty: the knowledge
\* base seeds the baseline set, the memory service keeps no record of a
\* partially loaded snapshot.
C17_CorruptSnapshot ==
  /\ result.raised = ""
  /\ (CorruptedFile(db_file) /\ result.op = "__init__") => IsSeed(items.elems)
  /\ CorruptedMemories(lt_snapshot) => long_term = <<>>

\* A memory as AgentMemory.__init__ leaves it.
IsEmptyMemory(mem) ==
  /\ mem.short_term_memory = <<>>
  /\ mem.long_term_memory = <<>>
  /\ mem.user_profile = <<>>
  /\ mem.topics_discussed = <<>>

\* The sessions under the keys `kept` and their entries are the same before
\* and after the step.
SessionsKept(kept) ==
  \A k \in kept :
     /\ k \in DOMAIN sessions /\ k \in DOMAIN sessions'
     /\ sessions'[k] = sessions[k]
     /\ \A id \in Live(sessions[k]) : heap'[id] = heap[id]

\* C18: every AgentMemory of the registry is stored under its own
\* session_id; get_or_create_memory(k) leaves an existing memory as it is,
\* and stores exactly one new empty memory under an unknown k.
C18_RegistryInvariant ==
  /\ [](\A k \in DOMAIN sessions : sessions[k].session_id = k)
  /\ [][(calls'.gets = calls.gets + 1) =>
          /\ SessionsKept(DOMAIN sessions)
          /\ \/ DOMAIN sessions' = DOMAIN sessions
             \/ \E k \in scope.ids \ DOMAIN sessions :
                   /\ DOMAIN sessions' = DOMAIN sessions \cup {k}
                   /\ IsEmptyMemory(sessions'[k])
                   /\ sessions'[k].session_id = k]_vars

\* Two get_or_create_memory calls went to one session id, whose memory
\* holds an interaction.
C18_Witness ==
  /\ calls.gets = 2
  /\ calls.deletes = 0 /\ calls.sweeps = 0
  /\ \E k \in DOMAIN sessions :
        DOMAIN sessions = {k} /\ Len(sessions[k].short_term_memory) = 1

\* C19: delete_session_memory(id) leaves the registry without key id and
\* every other session with its contents unchanged, and changes nothing
\* when id is absent.
C19_DeleteSession ==
  [][(calls'.deletes = calls.deletes + 1) =>
       \E id \in scope.ids :
          /\ DOMAIN sessions' = DOMAIN sessions \ {id}
          /\ SessionsKept(DOMAIN sessions \ {id})
          /\ id \notin DOMAIN sessions => (sessions' = sessions /\ heap' = heap)
    ]_vars

\* After a deletion and two creations one session, with an interaction, is
\* left.
C19_Witness ==
  /\ calls.deletes = 1
  /\ calls.gets = 2 /\ calls.sweeps = 0
  /\ \E k \in DOMAIN sessions :
        DOMAIN sessions = {k} /\ Len(sessions[k].short_term_memory) > 0

\* The age of the session in hours.
AgeInHours(mem) == (now - mem.created_at) * 24

\* C20: cleanup_old_sessions(hours) deletes exactly the sessions whose age
\* since created_at exceeds `hours`, keeps all others unchanged and returns
\* the number deleted; no operation on a session changes its created_at.
C20_CleanupOldSessions ==
  /\ [][(calls'.sweeps = calls.sweeps + 1) =>
          \E h \in scope.hours :
             LET old == {k \in DOMAIN sessions : AgeInHours(sessions[k]) > h}
             IN /\ DOMAIN sessions' = DOMAIN sessions \ old
                /\ SessionsKept(DOMAIN sessions \ old)
                /\ result'.op = "cleanup_old_sessions"
                /\ result'.returned = <<Cardinality(old)>>]_vars
  /\ [][\A k \in DOMAIN sessions \cap DOMAIN sessions' :
          sessions'[k].created_at = sessions[k].created_at]_vars

\* A sweep deleted one session and kept another one, which had been used.
C20_Witness ==
  /\ result.op = "cleanup_old_sessions"
  /\ result.returned = <<1>>
  /\ \E k \in DOMAIN sessions : Len(sessions[k].short_term_memory) > 0

\* C21 as stated: cleanup_old_sessions(hours=0) deletes every session of the
\* registry and returns the number of sessions that were present, whatever
\* their creation times.
C21_SweepZeroDeletesAll ==
  [][CleanupOldSessions(0) =>
       /\ DOMAIN sessions' = {}
       /\ result'.returned = <<Cardinality(DOMAIN sessions)>>]_vars

\* C21 as amended: cleanup_old_sessions(hours=0) deletes exactly the
\* sessions created before the clock reading of the sweep and returns their
\* number; a session created at the same clock instant as the sweep is kept,
\* unchanged, and is not counted.
C21_SweepZeroKeepsNewborn ==
  [][CleanupOldSessions(0) =>
       LET old == {k \in DOMAIN sessions : sessions[k].created_at < now}
       IN /\ DOMAIN sessions' = DOMAIN sessions \ old
          /\ SessionsKept(DOMAIN sessions \ old)
          /\ result'.op = "cleanup_old_sessions"
          /\ result'.returned = <<Cardinality(old)>>]_vars

\* A sweep has deleted one session that was at most 24 hours old (so it was
\* a sweep with hours = 0) and has kept a session created at the instant of
\* the sweep.
C21_Witness ==
  /\ result.op = "cleanup_old_sessions"
  /\ result.returned = <<1>>
  /\ now = 1
  /\ \E k \in DOMAIN sessions : sessions[k].created_at = now

TopicsDiscussed(s) == sessions[s].topics_discussed

\* The topics of the table that the message mentions and `discussed` lacks,
\* in the order of the table.
NewTopics(message, discussed) ==
  SelectSeq(Topics,
            LAMBDA topic : Mentions(message, topic) /\ topic \notin Range(discussed))

\* C22: topics_discussed holds no topic twice; every call leaves the topics
\* already present in place and in order (none is removed, also not by a
\* consolidation); only add_interaction appends, and it appends exactly the
\* topics of which the user message contains a keyword and that are not
\* yet present.
C22_TopicsAppendOnly ==
  /\ [](\A s \in DOMAIN sessions : NoDuplicates(TopicsDiscussed(s)))
  /\ [][\A s \in DOMAIN sessions \cap DOMAIN sessions' :
          LET old == TopicsDiscussed(s)
              new == sessions'[s].topics_discussed
          IN /\ Len(new) >= Len(old)
             /\ SubSeq(new, 1, Len(old)) = old
             /\ ~AddsTo(s) => new = old
             /\ \A m \in scope.messages :
                   AddInteraction(s, m) => new = old \o NewTopics(m, old)]_vars

\* Three interactions left the topics in the order of their discovery,
\* which is not the order of the table: the message that brought
\* "reservations" mentioned "rooms" again, which was not appended again.
C22_Witness ==
  \E s \in DOMAIN sessions :
     /\ calls.adds = 3
     /\ Len(TopicsDiscussed(s)) = 3
     /\ SubSeq(TopicsDiscussed(s), 1, 2) = <<"rooms", "reservations">>

\* C23: every call update_user_profile(key, value) sets user_profile[key]
\* to value and appends exactly one new entry to long-term memory, with
\* category "user_profile", importance 0.8 and the text of the change, also
\* when the key already had that value; it leaves the other keys of the
\* profile, short-term memory, topics_discussed, the entries that existed
\* and the other sessions unchanged.
C23_ProfileUpdate ==
  [][(calls'.profiles = calls.profiles + 1) =>
       \E s \in DOMAIN sessions : \E key \in scope.keys, value \in scope.values :
          LET old == sessions[s]
              new == sessions'[s]
              id == new.long_term_memory[Len(new.long_term_memory)]
          IN /\ DOMAIN sessions' = DOMAIN sessions
             /\ \A k \in DOMAIN sessions \ {s} : sessions'[k] = sessions[k]
             /\ DOMAIN new.user_profile = DOMAIN old.user_profile \cup {key}
             /\ new.user_profile[key] = value
             /\ \A k \in DOMAIN old.user_profile \ {key} :
                   new.user_profile[k] = old.user_profile[k]
             /\ Len(new.long_term_memory) = Len(old.long_term_memory) + 1
             /\ SubSeq(new.long_term_memory, 1, Len(old.long_term_memory)) =
                   old.long_term_memory
             /\ id \notin DOMAIN heap
             /\ heap'[id] = [content |-> <<"User", "preference:", key, "=", value>>,
                             category |-> "user_profile", importance |-> 8,
                             access_count |-> 0]
             /\ \A i \in DOMAIN heap : heap'[i] = heap[i]
             /\ new.short_term_memory = old.short_term_memory
             /\ new.topics_discussed = old.topics_discussed
             /\ new.created_at = old.created_at]_vars

\* A profile with two keys, one of which was set twice to the same value:
\* long-term memory holds the same text in two entries; the session has
\* interactions and topics.
C23_Witness ==
  \E s \in DOMAIN sessions :
     /\ Cardinality(DOMAIN sessions[s].user_profile) = 2
     /\ Len(ShortTerm(s)) > 0
     /\ Len(sessions[s].topics_discussed) > 0
     /\ \E i, j \in 1..Len(LongTerm(s)) :
           i < j /\ heap[LongTerm(s)[i]].content = heap[LongTerm(s)[j]].content

\* C24: get_context(n_recent), for every n_recent >= 0, reads exactly the
\* last min(n_recent, |short-term memory|) entries of short-term memory: it
\* raises the accessCount of each of them by exactly 1 and leaves every
\* other entry untouched; with n_recent = 0 it touches nothing.
C24_ContextWindow ==
  [][\A s \in DOMAIN sessions : \A n \in scope.nrecent :
       GetContext(s, n) =>
         LET short == ShortTerm(s)
             k == Min(n, Len(short))
             used == SubSeq(short, Len(short) - k + 1, Len(short))
         IN \A id \in DOMAIN heap :
               heap'[id].access_count = heap[id].access_count +
                  (IF id \in Range(used) THEN 1 ELSE 0)]_vars

\* C25: a consolidation is all or nothing, whatever requests overlap and
\* wherever a request is given up: between the steps of the tasks no
\* session holds more than 20 short-term entries; a step that promotes
\* entries to long-term memory is the step that cuts short-term memory from
\* 21 entries to the 10 most recent; and a request that is given up while
\* it waits for the model changes no history and no memory.
C25_AtomicConsolidation ==
  /\ [](\A s \in DOMAIN sessions : Len(ShortTerm(s)) <= ShortTermCap)
  /\ [][\A s \in DOMAIN sessions \cap DOMAIN sessions' :
          Len(sessions'[s].long_term_memory) > Len(LongTerm(s)) =>
             /\ Len(ShortTerm(s)) = ShortTermCap
             /\ sessions'[s].short_term_memory =
                  SubSeq(ShortTerm(s), 12, 20) \o <<NewInteraction>>]_vars
  /\ [][(calls'.abandons = calls.abandons + 1) =>
          /\ chat_sessions' = chat_sessions
          /\ sessions' = sessions
          /\ heap' = heap]_vars

\* A session has consolidated at the end of one request although an
\* earlier request for it had been given up while waiting.
C25_Witness ==
  \E s \in DOMAIN sessions :
     /\ Len(LongTerm(s)) > 0
     /\ Len(ShortTerm(s)) = KeepRecent
     /\ \E t, u \in DOMAIN tasks :
           /\ t < u
           /\ tasks[t].pc = "abandoned" /\ tasks[t].session_id = s
           /\ tasks[u].pc = "done" /\ tasks[u].session_id = s

\* The number of messages of the history with the role and the content.
Said(history, role, content) ==
  Cardinality({i \in 1..Len(history) :
                 history[i] = [role |-> role, content |-> content]})

\* Task u ended after task t had begun.
EndedAfter(u, t) == tasks[u].pc = "done" /\ tasks[u].finished >= t

IsRead == calls'.histories = calls.histories + 1 \/ calls'.exports = calls.exports + 1

\* C27: a read (get_history, get_session_memory) of a session id without
\* state raises an error; no read changes the histories or the registry of
\* the memories: in particular none creates a memory, also not after
\* cleanup_old_sessions has evicted the memory of a session.
C27_ReadsReportNotFound ==
  [][IsRead =>
       /\ chat_sessions' = chat_sessions
       /\ sessions' = sessions
       /\ \A id \in scope.ids :
             (id \notin DOMAIN chat_sessions /\ (GetHistory(id) \/ GetSessionMemory(id)))
                => result'.raised = "ValueError"]_vars

\* C29: a deletion is not undone by a request in flight: a request whose
\* session was deleted while it waited for the model ends in an error (or
\* is given up) and creates neither the history nor the memory again; a
\* deleted session id is in neither map; only process_message adds a
\* history, under an id made for it; and every key of the registry of the
\* memories is a key of ChatManager.sessions.
C29_DeletionStands ==
  /\ [](DOMAIN sessions \subseteq DOMAIN chat_sessions)
  /\ [](\A t \in DOMAIN tasks :
          tasks[t].pc = "failed" =>
             tasks[t].session_id \notin DOMAIN chat_sessions \cup DOMAIN sessions)
  /\ [][/\ \A t \in DOMAIN tasks :
             (/\ tasks[t].pc = "generate"
              /\ tasks[t].session_id \notin DOMAIN chat_sessions
              /\ tasks'[t].pc # "generate") =>
                /\ tasks'[t].pc \in {"failed", "abandoned"}
                /\ tasks'[t].pc = "failed" =>
                      result' = Raised("process_message", "KeyError")
                /\ chat_sessions' = chat_sessions
                /\ sessions' = sessions
        /\ (calls'.chatdeletes = calls.chatdeletes + 1) =>
             \E id \in scope.ids :
                /\ DOMAIN chat_sessions' = DOMAIN chat_sessions \ {id}
                /\ DOMAIN sessions' = DOMAIN sessions \ {id}
        /\ \A s \in DOMAIN chat_sessions' \ DOMAIN chat_sessions :
             /\ calls'.requests = calls.requests + 1
             /\ s = create_session_id(calls.creates + 1)]_vars

\* A session that had served a request was deleted while another request
\* for it waited for the model, and that request has ended in the error.
C29_Witness ==
  \E t, u \in DOMAIN tasks :
     /\ tasks[t].pc = "failed"
     /\ tasks[u].pc = "done"
     /\ tasks[u].session_id = tasks[t].session_id
     /\ calls.chatdeletes = 1

\* C28: process_query runs every matching skill: skills_triggered is, in
\* registration order, the names of the skills that are enabled, can handle
\* the query and whose execute did not raise; process_query changes no
\* skill, and a disabled skill becomes enabled only by enable_skill with
\* its name.
Triggered(all, query, kb_raises) ==
  LET ran == SelectSeq(all, LAMBDA skill :
                 /\ skill.enabled
                 /\ can_handle(skill, query)
                 /\ execute(skill, query, kb_raises).raised = "")
  IN [i \in 1..Len(ran) |-> ran[i].name]

C28_AllMatchingSkillsRun ==
  [][/\ \A q \in scope.messages, kb_raises \in BOOLEAN :
          ProcessQuery(q, kb_raises) =>
            /\ result'.returned[1].skills_triggered =
                 Triggered(skills, q, kb_raises)
            /\ skills' = skills
     /\ \A i \in 1..Len(skills) :
          (~skills[i].enabled /\ skills'[i].enabled) =>
             EnableSkill(skills[i].name)]_vars

\* A query three enabled skills can handle and a disabled one too: the
\* first raised, the two after it ran.
C28_Witness ==
  /\ result.op = "process_query"
  /\ Len(result.returned[1].skills_triggered) = 2
  /\ \E i, j \in 1..Len(skills) :
        /\ ~skills[i].enabled
        /\ can_handle(skills[i], result.returned[1].query)
        /\ j < i
        /\ skills[j].enabled
        /\ can_handle(skills[j], result.returned[1].query)
        /\ skills[j].name \notin Range(result.returned[1].skills_triggered)
  /\ calls.enables > 0

\* The calls of the client of grant i that were answered by quota up to
\* grant i and carry a timestamp later than `since`.
GrantedSince(i, since) ==
  {j \in 1..i : /\ granted[j].identifier = granted[i].identifier
                /\ granted[j].at > since}

\* C30 as stated: of the calls answered allowed to one client, at most
\* requests_per_minute carry a timestamp within any 60 seconds and at most
\* requests_per_hour within any 3600 seconds.
C30_WindowBound ==
  \A i \in 1..Len(granted) :
     /\ Cardinality(GrantedSince(i, granted[i].at - MinuteWindow))
          <= limiter.requests_per_minute
     /\ Cardinality(GrantedSince(i, granted[i].at - HourWindow))
          <= limiter.requests_per_hour

\* What a call that was not answered by quota leaves of the buckets.
NoQuotaUsed ==
  /\ granted' = granted
  /\ \A c \in scope.identifiers :
        /\ Len(Bucket(limiter'.minute_buckets, c))
             <= Len(Bucket(limiter.minute_buckets, c))
        /\ Len(Bucket(limiter'.hour_buckets, c))
             <= Len(Bucket(limiter.hour_buckets, c))
        /\ Range(Bucket(limiter'.minute_buckets, c))
             \subseteq Range(Bucket(limiter.minute_buckets, c))
        /\ Range(Bucket(limiter'.hour_buckets, c))
             \subseteq Range(Bucket(limiter.hour_buckets, c))

\* C30 (amended): the windows end where the call cleans its buckets: of the
\* calls answered allowed to one client, at most requests_per_minute carry
\* a timestamp within the 60 seconds before the clock reading of the
\* minute cleaning of any of them, and at most requests_per_hour within
\* the 3600 seconds before its hour cleaning; a denied call adds no
\* timestamp; a call of a blocked client that is not whitelisted is
\* denied while the clock is before its block time, and a block goes only
\* by unblock_ip, by block_ip or once that time has come; a whitelisted
\* client is allowed, blocked or not, and uses no quota.
C30_WindowBoundAtCleaning ==
  [][/\ \A i \in 1..Len(granted') :
          /\ Cardinality(GrantedSince(i, granted[i].cleaned_minute
                                           - MinuteWindow)')
               <= limiter'.requests_per_minute
          /\ Cardinality(GrantedSince(i, granted[i].cleaned_hour
                                           - HourWindow)')
               <= limiter'.requests_per_hour
     /\ \A c \in scope.identifiers, lag \in scope.lags :
          IsAllowed(c, lag) =>
            /\ ~result'.returned[1].allowed => NoQuotaUsed
            /\ (/\ c \notin limiter.whitelist
                /\ c \in DOMAIN limiter.blocked_ips
                /\ clock + lag[1] < limiter.blocked_ips[c])
                 => result'.returned[1] = Answer(FALSE, "blocked")
            /\ c \in limiter.whitelist =>
                 /\ result'.returned[1].allowed
                 /\ limiter' = limiter
                 /\ NoQuotaUsed
     /\ \A c \in DOMAIN limiter.blocked_ips :
          c \notin DOMAIN limiter'.blocked_ips =>
             UnblockIp(c) \/ clock' >= limiter.blocked_ips[c]]_vars

\* More calls were answered by quota than a minute allows, one of them
\* while the clock advanced, and the last call was denied for the minute.
C30_Witness ==
  /\ Len(granted) > limiter.requests_per_minute
  /\ \E i \in 1..Len(granted) : granted[i].cleaned_minute > granted[i].at
  /\ result.op = "is_allowed"
  /\ result.returned[1] = Answer(FALSE, "rate_limit_minute")

====
